---------------------------- MODULE Spec2Model ----------------------------
(***************************************************************************)
(* A model of the agent-tool Lambda back ends of                           *)
(* aws-samples/public-sector-bedrock-agents: the AWS Artifact agent, the   *)
(* DateTime agent and the WeatherForecast agent.                           *)
(*                                                                         *)
(* One invocation of a Lambda handler is one step: the escape_query_params *)
(* middleware, the route function and every utility it calls.  A second    *)
(* step, Deliver, hands the response back and leaves the process idle for   *)
(* the next invocation.  The external services (the report catalog, the    *)
(* place index service, api.weather.gov, the clock) are the environment:   *)
(* their state is in variables and their answers are chosen with \E.       *)
(*                                                                         *)
(* Text is a sequence of one-character strings, so that splitting,         *)
(* lower-casing, percent-encoding, parsing and regular-expression matching *)
(* are computed character by character as the code computes them.          *)
(***************************************************************************)
EXTENDS Integers, Sequences, FiniteSets, TLC

VARIABLES
    pc,             \* "idle": waiting for an invocation, "done": a response is ready
    op,             \* the route of the invocation that was handled, "none" at start
    args,           \* the caller's query parameters (before the middleware)
    exc,            \* "none", or the exception the invocation ended with
    statusCode,     \* the response's statusCode (0 when an exception was raised)
    body,           \* the response's body
    result,         \* what the utility method the route calls returned (<<>> when it raised)
    calls,          \* the outbound calls of the invocation, in the order issued
    catalog,        \* AWS Artifact: the reports the account can list
    place_indexes,  \* Amazon Location: the names of the existing place indexes
    env,            \* the answers of the environment during the invocation
    response,       \* the dictionary the route function returned (<<>> when it raised)
    passed,         \* the free text the route handed to its utility method, if it handed one
    globals,        \* the module-level objects of the Lambda process
    route_calculators, \* Amazon Location: the names of the existing route calculators
    constructors    \* the service constructors that run concurrently, each with its position

vars == <<pc, op, args, exc, statusCode, body, result, calls, catalog, place_indexes, env,
          response, passed, globals, route_calculators, constructors>>

-----------------------------------------------------------------------------
(* Bounds of the model *)

\* the longest catalog whose reports carry varied texts
MaxReports == 3
\* the longest catalog of the pagination cases
MaxCatalog == 12
\* the largest page number a request asks for
MaxPageNumber == 4
\* the most days between the start and the end date of a /bdays request
MaxSpan == 14
\* the most periods a forecast of api.weather.gov holds
MaxPeriods == 7

-----------------------------------------------------------------------------
(* Text *)

Min(a, b) == IF a < b THEN a ELSE b
Max(a, b) == IF a > b THEN a ELSE b

DigitChars == <<"0", "1", "2", "3", "4", "5", "6", "7", "8", "9">>

IsDigit(c) == \E i \in 1..10 : DigitChars[i] = c

DigitVal(c) == (CHOOSE i \in 1..10 : DigitChars[i] = c) - 1

LowerLetters ==
    {"a", "b", "c", "d", "e", "f", "g", "h", "i", "j", "k", "l", "m",
     "n", "o", "p", "q", "r", "s", "t", "u", "v", "w", "x", "y", "z"}

\* the upper-case letters of the model's alphabet
UpperLetters == {"A", "B", "C"}

\* what the regular expression's \w matches: a letter, a digit or "_"
IsWordChar(c) == c \in LowerLetters \/ c \in UpperLetters \/ c = "_" \/ IsDigit(c)

\* str.lower(), one character
LowerChar(c) == CASE c = "A" -> "a" [] c = "B" -> "b" [] c = "C" -> "c" [] OTHER -> c

\* str.lower()
Lower(s) == [i \in 1..Len(s) |-> LowerChar(s[i])]

RECURSIVE FormatNat(_)
FormatNat(n) ==
    IF n < 10 THEN <<DigitChars[n + 1]>>
    ELSE FormatNat(n \div 10) \o <<DigitChars[(n % 10) + 1]>>

\* str(n) of an int
FormatInt(n) == IF n < 0 THEN <<"-">> \o FormatNat(0 - n) ELSE FormatNat(n)

RECURSIVE DigitsValue(_)
DigitsValue(s) ==
    IF s = <<>> THEN 0
    ELSE 10 * DigitsValue(SubSeq(s, 1, Len(s) - 1)) + DigitVal(s[Len(s)])

AllDigits(s) == s # <<>> /\ \A i \in 1..Len(s) : IsDigit(s[i])

\* int(text): [ok, value]; not ok stands for ValueError
ParseInt(s) ==
    IF s # <<>> /\ s[1] \in {"-", "+"}
    THEN IF AllDigits(Tail(s))
         THEN [ok |-> TRUE, value |-> IF s[1] = "-" THEN 0 - DigitsValue(Tail(s)) ELSE DigitsValue(Tail(s))]
         ELSE [ok |-> FALSE, value |-> 0]
    ELSE IF AllDigits(s)
         THEN [ok |-> TRUE, value |-> DigitsValue(s)]
         ELSE [ok |-> FALSE, value |-> 0]

\* str.split() with no argument: the maximal runs of non-blank characters
RECURSIVE SplitFrom(_, _, _)
SplitFrom(s, i, word) ==
    IF i > Len(s) THEN (IF word = <<>> THEN <<>> ELSE <<word>>)
    ELSE IF s[i] = " "
         THEN (IF word = <<>> THEN <<>> ELSE <<word>>) \o SplitFrom(s, i + 1, <<>>)
         ELSE SplitFrom(s, i + 1, Append(word, s[i]))

Split(s) == SplitFrom(s, 1, <<>>)

\* list[:k]
Slice(s, k) ==
    IF k >= 0 THEN SubSeq(s, 1, Min(k, Len(s)))
    ELSE SubSeq(s, 1, Max(0, Len(s) + k))

-----------------------------------------------------------------------------
(* urllib.parse.quote and unquote *)

\* the characters quote() leaves alone: letters, digits, "_.-~" and "/"
IsSafeChar(c) == IsWordChar(c) \/ c \in {".", "-", "~", "/"}

\* the percent-encoding of the other characters of the model's alphabet
PercentCode(c) ==
    CASE c = " " -> <<"%", "2", "0">>
      [] c = ":" -> <<"%", "3", "A">>
      [] c = "%" -> <<"%", "2", "5">>
      [] c = "," -> <<"%", "2", "C">>
      [] c = "+" -> <<"%", "2", "B">>
      [] OTHER   -> <<"%", "3", "F">>

\* a slip: quote_plus in the place of quote, a blank becomes "+"
RECURSIVE escape_plus(_)
escape_plus(s) ==
    IF s = <<>> THEN <<>>
    ELSE (IF IsSafeChar(s[1]) THEN <<s[1]>>
          ELSE IF s[1] = " " THEN <<"+">>
          ELSE PercentCode(s[1])) \o escape_plus(Tail(s))

RECURSIVE escape(_)
escape(s) ==
    IF s = <<>> THEN <<>>
    ELSE (IF IsSafeChar(s[1]) THEN <<s[1]>> ELSE PercentCode(s[1])) \o escape(Tail(s))

CodedChars == {" ", ":", "%", ",", "+", "?"}

RECURSIVE unescape(_)
unescape(s) ==
    IF s = <<>> THEN <<>>
    ELSE IF s[1] = "%" /\ Len(s) >= 3 /\ \E c \in CodedChars : PercentCode(c) = SubSeq(s, 1, 3)
         THEN <<CHOOSE c \in CodedChars : PercentCode(c) = SubSeq(s, 1, 3)>> \o unescape(SubSeq(s, 4, Len(s)))
         ELSE <<s[1]>> \o unescape(Tail(s))

-----------------------------------------------------------------------------
(* The event and the escape_query_params middleware *)

\* one entry of event['parameters']
Param(name, value) == [name |-> name, type |-> "string", value |-> value]

\* a slip: only the values are escaped
escape_query_params_values_only(parameters) ==
    [i \in 1..Len(parameters) |->
        [name  |-> parameters[i].name,
         type  |-> parameters[i].type,
         value |-> escape(parameters[i].value)]]

\* escape_query_params: every entry's name and value are percent-encoded
escape_query_params(parameters) ==
    [i \in 1..Len(parameters) |->
        [name  |-> escape(parameters[i].name),
         type  |-> parameters[i].type,
         value |-> escape(parameters[i].value)]]

\* the middleware on the whole event: event.get('parameters', []) is escaped
\* when it is not empty, and the handler is called with the event
middleware(event) ==
    LET parameters == IF "parameters" \in DOMAIN event THEN event.parameters ELSE <<>>
        passed_on  == IF parameters # <<>>
                      THEN [event EXCEPT !.parameters = escape_query_params(parameters)]
                      ELSE event
    IN  [event |-> passed_on, handled |-> <<passed_on>>]

HasParam(parameters, name) == \E i \in 1..Len(parameters) : parameters[i].name = name

\* the value the resolver binds to a Query parameter: the entry of that name,
\* or the route's default when the event holds none
Query(parameters, name, default) ==
    IF HasParam(parameters, name)
    THEN parameters[CHOOSE i \in 1..Len(parameters) : parameters[i].name = name].value
    ELSE default

N_page_size == <<"p", "a", "g", "e", "_", "s", "i", "z", "e">>
N_page_number == <<"p", "a", "g", "e", "_", "n", "u", "m", "b", "e", "r">>
N_search_keywords == <<"s", "e", "a", "r", "c", "h", "_", "k", "e", "y", "w", "o", "r", "d", "s">>
N_max_results == <<"m", "a", "x", "_", "r", "e", "s", "u", "l", "t", "s">>
N_start_date == <<"s", "t", "a", "r", "t", "_", "d", "a", "t", "e">>
N_end_date == <<"e", "n", "d", "_", "d", "a", "t", "e">>
N_date_str == <<"d", "a", "t", "e", "_", "s", "t", "r">>
N_fiscal_year_start_month == <<"f", "i", "s", "c", "a", "l", "_", "y", "e", "a", "r", "_", "s", "t", "a", "r", "t", "_", "m", "o", "n", "t", "h">>
N_policy_name == <<"p", "o", "l", "i", "c", "y", "_", "n", "a", "m", "e">>
N_expiry_date == <<"e", "x", "p", "i", "r", "y", "_", "d", "a", "t", "e">>
N_latitude == <<"l", "a", "t", "i", "t", "u", "d", "e">>
N_longitude == <<"l", "o", "n", "g", "i", "t", "u", "d", "e">>
N_num_forecast_periods == <<"n", "u", "m", "_", "f", "o", "r", "e", "c", "a", "s", "t", "_", "p", "e", "r", "i", "o", "d", "s">>
N_location_description == <<"l", "o", "c", "a", "t", "i", "o", "n", "_", "d", "e", "s", "c", "r", "i", "p", "t", "i", "o", "n">>

-----------------------------------------------------------------------------
(* AWS Artifact: artifact_utils.py *)

\* default_max_results of list_reports
ListMaxResults == 10
\* default_max_results of get_total_report_pages
PagesMaxResults == 15
\* default_max_results of search_reports
SearchMaxResults == 10
\* the length a description is cut to by list_reports
DescriptionLimit == 100

\* The paginator over ListReports with PageSize page_size: the service fills
\* every page but the last, and answers an empty catalog with one empty page.
RECURSIVE paginate(_, _)
paginate(reports, page_size) ==
    IF Len(reports) <= page_size THEN <<reports>>
    ELSE <<SubSeq(reports, 1, page_size)>> \o paginate(SubSeq(reports, page_size + 1, Len(reports)), page_size)

\* one ListReports call per page fetched
ListReportsCalls(page_size, n) == [k \in 1..n |-> [api |-> "ListReports", maxResults |-> page_size, page |-> k]]

\* a slip: the ellipsis is added from the limit on, not above it
TruncateFromLimitOn(description) ==
    SubSeq(description, 1, Min(DescriptionLimit, Len(description)))
        \o (IF Len(description) >= DescriptionLimit THEN <<".", ".", ".">> ELSE <<>>)

\* ''.join([description[:100], '...' if len(description) > 100 else ''])
Truncate(description) ==
    SubSeq(description, 1, Min(DescriptionLimit, Len(description)))
        \o (IF Len(description) > DescriptionLimit THEN <<".", ".", ".">> ELSE <<>>)

ListedReport(report) ==
    [id |-> report.id, name |-> report.name, version |-> report.version,
     description |-> Truncate(report.description)]

ListedPage(page) == [i \in 1..Len(page) |-> ListedReport(page[i])]

Raise(e, cs) == [exc |-> e, value |-> <<>>, calls |-> cs]
Return(v, cs) == [exc |-> "none", value |-> v, calls |-> cs]

\* the loop of list_reports over the page iterator: the page at which
\* page_count equals page_number, and the number of pages fetched to get there
RECURSIVE ScanPages(_, _, _, _)
ScanPages(pages, i, page_count, page_number) ==
    IF i > Len(pages) THEN [reports |-> <<>>, fetched |-> Len(pages)]
    ELSE IF page_count = page_number THEN [reports |-> ListedPage(pages[i]), fetched |-> i]
    ELSE ScanPages(pages, i + 1, page_count + 1, page_number)

\* a slip: the size is checked after the first page was fetched
list_reports_checking_late(reports, page_size, page_number) ==
    IF page_size < 1 THEN Raise("ParamValidationError", <<>>)
    ELSE IF page_size > ListMaxResults THEN Raise("ValueError", ListReportsCalls(page_size, 1))
    ELSE LET pages == paginate(reports, page_size) IN
         IF page_number = 1
         THEN Return(ListedPage(pages[1]), ListReportsCalls(page_size, 1))
         ELSE LET found == ScanPages(pages, 1, 1, page_number) IN
              Return(found.reports, ListReportsCalls(page_size, found.fetched))

\* ArtifactUtils.list_reports
list_reports(reports, page_size, page_number) ==
    IF page_size > ListMaxResults THEN Raise("ValueError", <<>>)
    ELSE IF page_size < 1 THEN Raise("ParamValidationError", <<>>)
    ELSE LET pages == paginate(reports, page_size) IN
         IF page_number = 1
         THEN Return(ListedPage(pages[1]), ListReportsCalls(page_size, 1))
         ELSE LET found == ScanPages(pages, 1, 1, page_number) IN
              Return(found.reports, ListReportsCalls(page_size, found.fetched))

\* a slip: the quotient rounded down
CeilRoundingDown(a, b) == a \div b

\* ceil(a / b) for a >= 0, b >= 1
Ceil(a, b) == (a + b - 1) \div b

RECURSIVE SumLen(_)
SumLen(pages) == IF pages = <<>> THEN 0 ELSE Len(pages[1]) + SumLen(Tail(pages))

\* ArtifactUtils.get_total_report_pages
get_total_report_pages(reports, page_size) ==
    IF page_size > PagesMaxResults THEN Raise("ValueError", <<>>)
    ELSE IF page_size < 1 THEN Raise("ParamValidationError", <<>>)
    ELSE LET pages == paginate(reports, page_size) IN
         Return(Ceil(SumLen(pages), page_size), ListReportsCalls(page_size, Len(pages)))

\* \b at position pos of text (pos characters lie before it)
WordBoundary(text, pos) ==
    LET before == pos >= 1 /\ IsWordChar(text[pos])
        after  == pos < Len(text) /\ IsWordChar(text[pos + 1])
    IN  before # after

\* \bword\b matches at position pos of text
MatchAt(text, word, pos) ==
    /\ pos + Len(word) <= Len(text)
    /\ WordBoundary(text, pos)
    /\ SubSeq(text, pos + 1, pos + Len(word)) = word
    /\ WordBoundary(text, pos + Len(word))

\* the alternatives of word_pattern, in the order the set of search words is
\* iterated; no search word leaves the pattern \b\b, one empty alternative
Alternatives(order) == IF order = <<>> THEN << <<>> >> ELSE order

\* the first alternative that matches at pos, 0 when none does
FirstMatch(text, alts, pos) ==
    IF \E k \in 1..Len(alts) : MatchAt(text, alts[k], pos)
    THEN CHOOSE k \in 1..Len(alts) :
            MatchAt(text, alts[k], pos) /\ \A j \in 1..(k - 1) : ~MatchAt(text, alts[j], pos)
    ELSE 0

\* len(re.findall(word_pattern, text)): the matches found scanning from the
\* left, each search resuming where the last match ended
RECURSIVE FindallCount(_, _, _)
FindallCount(text, alts, pos) ==
    IF pos > Len(text) THEN 0
    ELSE LET k == FirstMatch(text, alts, pos) IN
         IF k = 0 THEN FindallCount(text, alts, pos + 1)
         ELSE 1 + FindallCount(text, alts, IF alts[k] = <<>> THEN pos + 1 ELSE pos + Len(alts[k]))

\* set(search_keywords.lower().split())
SearchWords(search_keywords) ==
    LET words == Split(Lower(search_keywords)) IN {words[i] : i \in 1..Len(words)}

\* the orders in which a set can be iterated
Orders(S) ==
    {f \in [1..Cardinality(S) -> S] : \A i, j \in 1..Cardinality(S) : f[i] = f[j] => i = j}

total_matches(report, alts) ==
    FindallCount(Lower(report.name), alts, 0) + FindallCount(Lower(report.description), alts, 0)

RECURSIVE MatchingReports(_, _)
MatchingReports(reports, alts) ==
    IF reports = <<>> THEN <<>>
    ELSE LET report == reports[1]
             n == total_matches(report, alts)
         IN  (IF n > 0
              THEN <<[id |-> report.id, name |-> report.name, description |-> report.description,
                      version |-> report.version, match_count |-> n]>>
              ELSE <<>>) \o MatchingReports(Tail(reports), alts)

\* list.sort(key=match_count, reverse=True): stable, equal counts keep their order
RECURSIVE SortByMatchCount(_)
SortByMatchCount(s) ==
    IF s = <<>> THEN <<>>
    ELSE LET rest == SortByMatchCount(SubSeq(s, 1, Len(s) - 1))
             x    == s[Len(s)]
             k    == Cardinality({i \in 1..Len(rest) : rest[i].match_count >= x.match_count})
         IN  SubSeq(rest, 1, k) \o <<x>> \o SubSeq(rest, k + 1, Len(rest))

\* ArtifactUtils.search_reports; max_results is the record [given, value],
\* order the iteration order of the set of search words
search_reports(reports, search_keywords, max_results, order) ==
    IF max_results.given /\ max_results.value > SearchMaxResults THEN Raise("ValueError", <<>>)
    ELSE LET matching == SortByMatchCount(MatchingReports(reports, Alternatives(order))) IN
         Return(IF max_results.given THEN Slice(matching, max_results.value) ELSE matching,
                <<[api |-> "ListReports", maxResults |-> 0, page |-> 1]>>)

\* the requests get_report_url sends
GetTermForReportCall(report_id, report_version) ==
    [api |-> "GetTermForReport", reportId |-> report_id, reportVersion |-> report_version]
GetReportCall(report_id, report_version, term_token) ==
    [api |-> "GetReport", reportId |-> report_id, reportVersion |-> report_version,
     termToken |-> term_token]

\* json.dumps({'url': url})
UrlJson(url) == <<"{", "\"", "u", "r", "l", "\"", ":", " ", "\"">> \o url \o <<"\"", "}">>

\* a slip: the failure of get_term_for_report is swallowed and get_report is
\* called without a term token
get_report_url_without_term(report_id, report_version, artifact) ==
    LET term == GetTermForReportCall(report_id, report_version)
        token == IF artifact.term.outcome = "ok" THEN artifact.term.termToken ELSE <<>>
    IN  IF report_version < 1 THEN Raise("ParamValidationError", <<>>)
        ELSE IF artifact.report.outcome # "ok"
        THEN Raise(artifact.report.outcome, <<term, GetReportCall(report_id, report_version, token)>>)
        ELSE Return(UrlJson(artifact.report.documentPresignedUrl),
                    <<term, GetReportCall(report_id, report_version, token)>>)

\* ArtifactUtils.get_report_url with _get_term_for_report: neither call's error
\* is caught; the client rejects a version below 1 before sending
get_report_url(report_id, report_version, artifact) ==
    LET term == GetTermForReportCall(report_id, report_version) IN
    IF report_version < 1 THEN Raise("ParamValidationError", <<>>)
    ELSE IF artifact.term.outcome # "ok" THEN Raise(artifact.term.outcome, <<term>>)
    ELSE LET term_token == artifact.term.termToken
             report     == GetReportCall(report_id, report_version, term_token)
         IN  IF artifact.report.outcome # "ok"
             THEN Raise(artifact.report.outcome, <<term, report>>)
             ELSE Return(UrlJson(artifact.report.documentPresignedUrl), <<term, report>>)

-----------------------------------------------------------------------------
(* The requests and catalogs the model draws from *)

Given(v) == [given |-> TRUE, value |-> v]
Absent == [given |-> FALSE, value |-> <<>>]

\* the entry of an optional parameter, none when the caller leaves it out
Entry(name, opt) == IF opt.given THEN <<Param(name, opt.value)>> ELSE <<>>

\* page_size and max_results as callers write them: numbers from below the
\* valid range to above every limit of artifact_utils.py, and text that is no number
SizeValues ==
    {0 - 1, 0, 1, 2, 3, 5, 6, ListMaxResults, ListMaxResults + 1, PagesMaxResults, PagesMaxResults + 1}

SizeTexts == {FormatInt(n) : n \in SizeValues} \cup {<<"x">>, <<" ", "5">>}

PageNumberTexts == {FormatInt(n) : n \in 0..MaxPageNumber} \cup {<<"x">>}

Optional(S) == {Given(v) : v \in S} \cup {Absent}

KeywordTexts ==
    { <<>>, <<" ">>, <<"a">>, <<"b">>, <<"A">>, <<"c">>, <<"a", "b">>,
      <<"a", " ", "b">>, <<"b", " ", " ", "a">>, <<"a", " ", "a">>, <<"-">>,
      <<"a", "-", "b", " ", "a", " ", "b">> }

\* the names and descriptions of the reports
ReportTexts ==
    << [name |-> <<"a">>,           description |-> <<"a", " ", "b">>],
       [name |-> <<"A", "-", "b">>, description |-> <<"a", "b">>],
       [name |-> <<"c">>,           description |-> <<"a", " ", "a">>] >>

\* the catalog whose i-th report carries the texts numbered f[i]
Catalog(f) ==
    [i \in DOMAIN f |->
        [id |-> i, name |-> ReportTexts[f[i]].name, version |-> 1,
         description |-> ReportTexts[f[i]].description]]

Catalogs ==
    UNION {{Catalog(f) : f \in [1..n -> 1..Len(ReportTexts)]} : n \in 0..MaxReports}
    \cup {Catalog([i \in 1..n |-> ((i - 1) % Len(ReportTexts)) + 1]) : n \in (MaxReports + 1)..MaxCatalog}

N_report_id == <<"r", "e", "p", "o", "r", "t", "_", "i", "d">>
N_report_version == <<"r", "e", "p", "o", "r", "t", "_", "v", "e", "r", "s", "i", "o", "n">>

ReportIds == {<<"r", "e", "p", "o", "r", "t", "-", "a">>, <<"r", " ", "1">>}
VersionTexts == {<<"1">>, <<"2">>, <<"0">>, <<"x">>}

\* what AWS Artifact answers to the two requests of get_report_url
ArtifactAnswers ==
    [term   : {[outcome |-> "ok", termToken |-> token] : token \in {<<"t", "1">>, <<"t", "2">>}}
                  \cup {[outcome |-> "ClientError", termToken |-> <<>>]},
     report : {[outcome |-> "ok", documentPresignedUrl |-> <<"h", "t", "t", "p", "s", ":", "/", "/", "u">>],
               [outcome |-> "ClientError", documentPresignedUrl |-> <<>>]}]

-----------------------------------------------------------------------------
(* The invocations *)

NoEnv == [order |-> <<>>]

\* the invocation ends with the response {"statusCode": code, "body": b}
Respond(route, parameters, code, b, res, cs, e) ==
    /\ pc' = "done"
    /\ op' = route
    /\ args' = parameters
    /\ exc' = "none"
    /\ statusCode' = code
    /\ body' = b
    /\ result' = res
    /\ calls' = cs
    /\ env' = e
    /\ response' = [statusCode |-> code, body |-> b]
    /\ UNCHANGED <<globals, route_calculators, constructors>>

\* the invocation ends with the exception ex, which no handler catches
Fail(route, parameters, ex, cs, e) ==
    /\ pc' = "done"
    /\ op' = route
    /\ args' = parameters
    /\ exc' = ex
    /\ statusCode' = 0
    /\ body' = <<>>
    /\ result' = <<>>
    /\ calls' = cs
    /\ env' = e
    /\ response' = <<>>
    /\ UNCHANGED <<globals, route_calculators, constructors>>

\* the handler's result goes back to the runtime; the process waits for the next event
Deliver ==
    /\ pc = "done"
    /\ pc' = "idle"
    /\ op' = "none"
    /\ args' = <<>>
    /\ exc' = "none"
    /\ statusCode' = 0
    /\ body' = <<>>
    /\ result' = <<>>
    /\ calls' = <<>>
    /\ env' = NoEnv
    /\ response' = <<>>
    /\ passed' = Absent
    /\ UNCHANGED <<catalog, place_indexes, globals, route_calculators, constructors>>

-----------------------------------------------------------------------------
(* AWS Artifact: lambda_handler.py *)

\* GET /rp
ListReports ==
    /\ pc = "idle"
    /\ \E size \in Optional(SizeTexts), number \in Optional(PageNumberTexts) :
        LET parameters  == Entry(N_page_size, size) \o Entry(N_page_number, number)
            escaped     == escape_query_params(parameters)
            page_size   == ParseInt(Query(escaped, N_page_size, <<"5">>))
            page_number == ParseInt(Query(escaped, N_page_number, <<"1">>))
        IN  IF ~page_size.ok \/ ~page_number.ok
            THEN Fail("/rp", parameters, "ValueError", <<>>, NoEnv)
            ELSE LET r == list_reports(catalog, page_size.value, page_number.value) IN
                 IF r.exc # "none"
                 THEN Fail("/rp", parameters, r.exc, r.calls, NoEnv)
                 ELSE Respond("/rp", parameters, 200, r.value, r.value, r.calls, NoEnv)
    /\ passed' = Absent
    /\ UNCHANGED <<catalog, place_indexes>>

\* GET /rp/pg
GetPages ==
    /\ pc = "idle"
    /\ \E size \in Optional(SizeTexts) :
        LET parameters == Entry(N_page_size, size)
            escaped    == escape_query_params(parameters)
            page_size  == ParseInt(Query(escaped, N_page_size, <<"5">>))
        IN  IF ~page_size.ok
            THEN Fail("/rp/pg", parameters, "ValueError", <<>>, NoEnv)
            ELSE LET r == get_total_report_pages(catalog, page_size.value) IN
                 IF r.exc # "none"
                 THEN Fail("/rp/pg", parameters, r.exc, r.calls, NoEnv)
                 ELSE Respond("/rp/pg", parameters, 200, FormatInt(r.value), r.value, r.calls, NoEnv)
    /\ passed' = Absent
    /\ UNCHANGED <<catalog, place_indexes>>

\* GET /rp/srch
Search ==
    /\ pc = "idle"
    /\ \E keywords \in KeywordTexts, size \in Optional(SizeTexts) :
        LET parameters      == <<Param(N_search_keywords, keywords)>> \o Entry(N_max_results, size)
            escaped         == escape_query_params(parameters)
            search_keywords == Query(escaped, N_search_keywords, <<>>)
            max_results     == ParseInt(Query(escaped, N_max_results, <<"5">>))
        IN  IF ~max_results.ok
            THEN Fail("/rp/srch", parameters, "ValueError", <<>>, NoEnv) /\ passed' = Absent
            ELSE \E order \in Orders(SearchWords(unescape(search_keywords))) :
                    LET r == search_reports(catalog, unescape(search_keywords),
                                            Given(max_results.value), order)
                    IN  /\ passed' = Given(unescape(search_keywords))
                        /\ IF r.exc # "none"
                           THEN Fail("/rp/srch", parameters, r.exc, r.calls, [order |-> order])
                           ELSE Respond("/rp/srch", parameters, 200, r.value, r.value, r.calls, [order |-> order])
    /\ UNCHANGED <<catalog, place_indexes>>

\* GET /rp/url
GetUrl ==
    /\ pc = "idle"
    /\ \E id \in ReportIds, version_text \in VersionTexts, artifact \in ArtifactAnswers :
        LET parameters == <<Param(N_report_id, id), Param(N_report_version, version_text)>>
            escaped    == escape_query_params(parameters)
            report_id  == Query(escaped, N_report_id, <<>>)
            version    == ParseInt(Query(escaped, N_report_version, <<>>))
            answers    == [order |-> <<>>, artifact |-> artifact]
        IN  IF ~version.ok
            THEN Fail("/rp/url", parameters, "ValueError", <<>>, answers)
            ELSE LET report_url == get_report_url(report_id, version.value, artifact) IN
                 IF report_url.exc # "none"
                 THEN Fail("/rp/url", parameters, report_url.exc, report_url.calls, answers)
                 ELSE Respond("/rp/url", parameters, 200, report_url.value, report_url.value,
                              report_url.calls, answers)
    /\ passed' = Absent
    /\ UNCHANGED <<catalog, place_indexes>>

InitArtifact ==
    /\ pc = "idle"
    /\ op = "none"
    /\ args = <<>>
    /\ exc = "none"
    /\ statusCode = 0
    /\ body = <<>>
    /\ result = <<>>
    /\ calls = <<>>
    /\ env = NoEnv
    /\ response = <<>>
    /\ passed = Absent
    /\ globals = [tracer |-> "AWSArtifactAgent"]
    /\ route_calculators = {}
    /\ constructors = <<>>
    /\ catalog \in Catalogs
    /\ place_indexes = {}

NextArtifact == ListReports \/ GetPages \/ Search \/ GetUrl \/ Deliver

SpecArtifact == InitArtifact /\ [][NextArtifact]_vars

-----------------------------------------------------------------------------
(* Claims about the AWS Artifact agent *)

\* the limit the routes' parameter descriptions state:
\* "Default and maximum value is 5."
DocumentedMaximum == 5

SearchDone == pc = "done" /\ op = "/rp/srch" /\ exc = "none"

\* the caller's search_keywords and max_results
CallerKeywords == Query(args, N_search_keywords, <<>>)
CallerMaxResults == ParseInt(Query(args, N_max_results, <<"5">>)).value

\* the whole-word occurrences of the keywords in a text, case-insensitive:
\* the places where a keyword stands between two word boundaries
Occurrences(text, words) ==
    {<<pos, w>> \in (0..Len(text)) \X words : MatchAt(Lower(text), w, pos)}

ClaimedMatchCount(report, words) ==
    Cardinality(Occurrences(report.name, words)) + Cardinality(Occurrences(report.description, words))

\* C1 (as claimed): search_reports returns the catalog reports whose match_count
\* is greater than 0, match_count being the number of case-insensitive whole-word
\* occurrences of any search keyword in the name plus the description, ordered by
\* non-increasing match_count and cut to the first max_results entries.
C1_SearchReturnsRankedMatches ==
    SearchDone =>
        LET words    == SearchWords(CallerKeywords)
            matching == {i \in 1..Len(catalog) : ClaimedMatchCount(catalog[i], words) > 0}
            returned == {body[k].id : k \in 1..Len(body)}
        IN  /\ returned \subseteq matching
            /\ \A k \in 1..Len(body) :
                  /\ body[k].match_count = ClaimedMatchCount(catalog[body[k].id], words)
                  /\ body[k].name = catalog[body[k].id].name
                  /\ body[k].description = catalog[body[k].id].description
            /\ \A j, k \in 1..Len(body) :
                  /\ (j # k => body[j].id # body[k].id)
                  /\ (j < k => body[j].match_count >= body[k].match_count)
            /\ Len(body) = Min(CallerMaxResults, Cardinality(matching))
            /\ \A i \in matching \ returned : \A k \in 1..Len(body) :
                  body[k].match_count >= ClaimedMatchCount(catalog[i], words)

\* C2 (as claimed): every report search_reports returns contains at least one of
\* the search keywords as a whole word in its name or description; a keyword
\* string with no keywords returns no reports.
C2_ReturnedReportsHoldAKeyword ==
    SearchDone =>
        \A k \in 1..Len(body) :
            \E w \in SearchWords(CallerKeywords) :
                \/ \E pos \in 0..Len(body[k].name) : MatchAt(Lower(body[k].name), w, pos)
                \/ \E pos \in 0..Len(body[k].description) : MatchAt(Lower(body[k].description), w, pos)

\* the size a request of the three listing routes asks for
RequestedSize ==
    ParseInt(escape(Query(args, IF op = "/rp/srch" THEN N_max_results ELSE N_page_size, <<"5">>)))

\* C3 (as claimed): the maximum accepted page_size on /rp and /rp/pg and
\* max_results on /rp/srch is 5: a request with a greater value is rejected and
\* never answered with more than 5 reports.
C3_SizeAboveFiveRejected ==
    (pc = "done" /\ op \in {"/rp", "/rp/pg", "/rp/srch"}) =>
        /\ (RequestedSize.ok /\ RequestedSize.value > DocumentedMaximum => exc # "none")
        /\ (exc = "none" /\ op # "/rp/pg" => Len(body) <= DocumentedMaximum)

RECURSIVE ConcatPages(_, _, _)
ConcatPages(reports, p, n) ==
    IF n = 0 THEN <<>>
    ELSE ConcatPages(reports, p, n - 1) \o list_reports(reports, p, n).value

SameReport(listed, report) ==
    listed.id = report.id /\ listed.name = report.name /\ listed.version = report.version

\* C4: for every page_size p in 1..10, with N = get_total_report_pages(p), the
\* pages list_reports(p, 1) .. list_reports(p, N) hold every catalog report
\* exactly once in catalog order, each page before the last holds p reports and
\* the last holds between 1 and p; N = 0 when the catalog is empty.
C4_PagesPartitionCatalog ==
    op \in {"none", "/rp", "/rp/pg"} => \A p \in 1..ListMaxResults :
        LET total == get_total_report_pages(catalog, p)
            N     == total.value
            all   == ConcatPages(catalog, p, N)
        IN  /\ total.exc = "none"
            /\ (catalog = <<>> <=> N = 0)
            /\ Len(all) = Len(catalog)
            /\ \A i \in 1..Len(all) : SameReport(all[i], catalog[i])
            /\ \A n \in 1..N :
                  /\ list_reports(catalog, p, n).exc = "none"
                  /\ n < N => Len(list_reports(catalog, p, n).value) = p
                  /\ n = N => Len(list_reports(catalog, p, n).value) \in 1..p

\* C4's case: /rp answered with the last page of several, and it is not full
C4_Witness ==
    /\ pc = "done" /\ op = "/rp" /\ exc = "none"
    /\ LET p == ParseInt(Query(args, N_page_size, <<"5">>)).value
           n == ParseInt(Query(args, N_page_number, <<"1">>)).value
       IN  /\ p \in 2..ListMaxResults
           /\ n >= 3
           /\ n = get_total_report_pages(catalog, p).value
           /\ Len(body) \in 1..(p - 1)
           /\ body = list_reports(catalog, p, n).value

-----------------------------------------------------------------------------
(* datetime: dates are <<year, month, day>>, a datetime at midnight is its date *)

IsLeap(y) == y % 4 = 0 /\ (y % 100 # 0 \/ y % 400 = 0)

DaysInMonth(y, m) ==
    IF m = 2 THEN (IF IsLeap(y) THEN 29 ELSE 28)
    ELSE IF m \in {4, 6, 9, 11} THEN 30 ELSE 31

\* datetime.MINYEAR <= y <= datetime.MAXYEAR
YearInRange(y) == y >= 1 /\ y <= 9999

\* date(y, m, d) is a date; otherwise the constructor raises ValueError
IsDate(y, m, d) == YearInRange(y) /\ m \in 1..12 /\ d >= 1 /\ d <= DaysInMonth(y, m)

DaysBeforeYear(y) == (y - 1) * 365 + ((y - 1) \div 4) - ((y - 1) \div 100) + ((y - 1) \div 400)

RECURSIVE DaysBeforeMonth(_, _)
DaysBeforeMonth(y, m) == IF m = 1 THEN 0 ELSE DaysBeforeMonth(y, m - 1) + DaysInMonth(y, m - 1)

\* date.toordinal(): 0001-01-01 is day 1
ToOrdinal(date) == DaysBeforeYear(date[1]) + DaysBeforeMonth(date[1], date[2]) + date[3]

\* date.weekday(): Monday is 0, Sunday is 6
weekday(date) == (ToOrdinal(date) + 6) % 7

\* date < date
DateLess(a, b) ==
    \/ a[1] < b[1]
    \/ a[1] = b[1] /\ a[2] < b[2]
    \/ a[1] = b[1] /\ a[2] = b[2] /\ a[3] < b[3]

DateMax == <<9999, 12, 31>>
DateMin == <<1, 1, 1>>

\* date + timedelta(days=1), which raises OverflowError past date.max
NextDay(date) ==
    IF date[3] < DaysInMonth(date[1], date[2]) THEN <<date[1], date[2], date[3] + 1>>
    ELSE IF date[2] < 12 THEN <<date[1], date[2] + 1, 1>>
    ELSE <<date[1] + 1, 1, 1>>

\* date - timedelta(days=1), which raises OverflowError before date.min
PrevDay(date) ==
    IF date[3] > 1 THEN <<date[1], date[2], date[3] - 1>>
    ELSE IF date[2] > 1 THEN <<date[1], date[2] - 1, DaysInMonth(date[1], date[2] - 1)>>
    ELSE <<date[1] - 1, 12, 31>>

\* a number as digits, zero-padded to the given width
ZeroPadded(n, width) ==
    [i \in 1..Max(width, Len(FormatNat(n))) |->
        LET digits == FormatNat(n)
            pad    == Max(width, Len(digits)) - Len(digits)
        IN  IF i <= pad THEN "0" ELSE digits[i - pad]]

\* date.strftime("%Y-%m-%d"), the year written with four digits
strftime(date) ==
    ZeroPadded(date[1], 4) \o <<"-">> \o ZeroPadded(date[2], 2) \o <<"-">> \o ZeroPadded(date[3], 2)

\* the fields of a text between the separator characters
RECURSIVE FieldsFrom(_, _, _, _)
FieldsFrom(s, sep, i, field) ==
    IF i > Len(s) THEN <<field>>
    ELSE IF s[i] = sep THEN <<field>> \o FieldsFrom(s, sep, i + 1, <<>>)
    ELSE FieldsFrom(s, sep, i + 1, Append(field, s[i]))

Fields(s, sep) == FieldsFrom(s, sep, 1, <<>>)

\* one or two digits, as strptime reads %m, %d, %H, %M and %S
ShortNumber(s) == Len(s) \in 1..2 /\ AllDigits(s)

\* datetime.strptime(text, "%Y-%m-%d"): [ok, date]; not ok stands for ValueError
strptime_date(text) ==
    LET f == Fields(text, "-") IN
    IF /\ Len(f) = 3
       /\ Len(f[1]) = 4 /\ AllDigits(f[1])
       /\ ShortNumber(f[2])
       /\ ShortNumber(f[3])
       /\ IsDate(DigitsValue(f[1]), DigitsValue(f[2]), DigitsValue(f[3]))
    THEN [ok |-> TRUE, date |-> <<DigitsValue(f[1]), DigitsValue(f[2]), DigitsValue(f[3])>>]
    ELSE [ok |-> FALSE, date |-> DateMin]

\* HH:MM:SS read by "%H:%M:%S": [ok, seconds since midnight]
strptime_time(text) ==
    LET f == Fields(text, ":") IN
    IF /\ Len(f) = 3
       /\ \A i \in 1..3 : ShortNumber(f[i])
       /\ DigitsValue(f[1]) <= 23 /\ DigitsValue(f[2]) <= 59 /\ DigitsValue(f[3]) <= 61
    THEN [ok |-> TRUE, seconds |-> DigitsValue(f[1]) * 3600 + DigitsValue(f[2]) * 60 + DigitsValue(f[3])]
    ELSE [ok |-> FALSE, seconds |-> 0]

\* datetime.strptime(text, "%Y-%m-%d %H:%M:%S"): [ok, date, seconds]
strptime_datetime(text) ==
    LET f == Fields(text, " ") IN
    IF Len(f) = 2 /\ strptime_date(f[1]).ok /\ strptime_time(f[2]).ok
    THEN [ok |-> TRUE, date |-> strptime_date(f[1]).date, seconds |-> strptime_time(f[2]).seconds]
    ELSE [ok |-> FALSE, date |-> DateMin, seconds |-> 0]

-----------------------------------------------------------------------------
(* DateTime agent: date_time_utils.py *)

\* a slip: Saturday counted as a business day
is_business_day_with_saturday(date) == weekday(date) >= 0 /\ weekday(date) <= 5

\* BusinessDateTimeUtils.is_business_day
is_business_day(date) == weekday(date) >= 0 /\ weekday(date) <= 4

\* the loop of calculate_business_days
RECURSIVE CountBusinessDays(_, _, _)
CountBusinessDays(current_date, end_date, business_days) ==
    IF DateLess(current_date, end_date)
    THEN CountBusinessDays(NextDay(current_date), end_date,
                           IF is_business_day(current_date) THEN business_days + 1 ELSE business_days)
    ELSE business_days

\* BusinessDateTimeUtils.calculate_business_days
calculate_business_days(start_date, end_date) == CountBusinessDays(start_date, end_date, 0)

\* a slip: the start month itself counted into the previous fiscal year
get_fiscal_year_start_month_late(date, fiscal_year_start_month) ==
    IF date[2] <= fiscal_year_start_month THEN date[1] - 1 ELSE date[1]

\* BusinessDateTimeUtils.get_fiscal_year
get_fiscal_year(date, fiscal_year_start_month) ==
    IF date[2] < fiscal_year_start_month THEN date[1] - 1 ELSE date[1]

\* BusinessDateTimeUtils.get_fiscal_year_range: the two date() constructors
\* raise ValueError for a month outside 1..12 or a year outside 1..9999
get_fiscal_year_range(date, fiscal_year_start_month) ==
    LET fiscal_year == get_fiscal_year(date, fiscal_year_start_month) IN
    IF ~IsDate(fiscal_year, fiscal_year_start_month, 1) THEN Raise("ValueError", <<>>)
    ELSE IF ~IsDate(fiscal_year + 1, fiscal_year_start_month, 1) THEN Raise("ValueError", <<>>)
    ELSE Return([start_date |-> <<fiscal_year, fiscal_year_start_month, 1>>,
                 end_date   |-> PrevDay(<<fiscal_year + 1, fiscal_year_start_month, 1>>)], <<>>)

\* self.is_holiday: the method is commented out, so looking it up raises AttributeError
is_holiday(date) == Raise("AttributeError", <<>>)

\* the loop of get_next_business_day: "weekday() > 4 or self.is_holiday(next_day)"
RECURSIVE NextBusinessDayFrom(_)
NextBusinessDayFrom(next_day) ==
    IF weekday(next_day) > 4
    THEN (IF next_day = DateMax THEN Raise("OverflowError", <<>>)
          ELSE NextBusinessDayFrom(NextDay(next_day)))
    ELSE LET holiday == is_holiday(next_day) IN
         IF holiday.exc # "none" THEN Raise(holiday.exc, <<>>)
         ELSE IF holiday.value
              THEN (IF next_day = DateMax THEN Raise("OverflowError", <<>>)
                    ELSE NextBusinessDayFrom(NextDay(next_day)))
              ELSE Return(next_day, <<>>)

\* BusinessDateTimeUtils.get_next_business_day
get_next_business_day(date) ==
    IF date = DateMax THEN Raise("OverflowError", <<>>)
    ELSE NextBusinessDayFrom(NextDay(date))

\* DateTimeUtils.get_date_time: a dict of texts describing the clock's reading
get_date_time(now) == [type |-> "dict", date |-> now.date, seconds |-> now.seconds]

\* a >= b: ordered for two datetimes, TypeError for a dict and a datetime
GreaterEqual(a, b) ==
    IF a.type = "datetime" /\ b.type = "datetime"
    THEN Return(\/ DateLess(b.date, a.date)
                \/ a.date = b.date /\ a.seconds >= b.seconds, <<>>)
    ELSE Raise("TypeError", <<>>)

-----------------------------------------------------------------------------
(* DateTime agent: the requests the model draws from *)

\* date + timedelta(days=k)
RECURSIVE AddDays(_, _)
AddDays(date, k) ==
    IF k = 0 THEN date
    ELSE IF k > 0 THEN AddDays(NextDay(date), k - 1)
    ELSE AddDays(PrevDay(date), k + 1)

Reachable(date, k) == ToOrdinal(date) + k >= 1 /\ ToOrdinal(date) + k <= ToOrdinal(DateMax)

\* a week of dates in May 2026, around a leap day, across a new year, and at
\* both ends of the range of date
BaseDates == {<<2026, 5, 1>>, <<2024, 2, 26>>, <<2025, 12, 28>>, DateMin, <<9999, 12, 25>>}

Dates == {AddDays(b, k) : b \in BaseDates, k \in 0..6}

\* texts that are no date in "YYYY-MM-DD" format
BadDateTexts == { <<"x">>, <<"2", "0", "2", "6", "-", "0", "2", "-", "3", "0">> }

DateTexts == {strftime(d) : d \in Dates} \cup BadDateTexts

BusinessDaysRequests ==
    {<<strftime(r[1]), strftime(AddDays(r[1], r[2]))>> :
        r \in {x \in Dates \X ((0 - 1)..MaxSpan) : Reachable(x[1], x[2])}}
    \cup {<<t, strftime(<<2026, 5, 1>>)>> : t \in BadDateTexts}
    \cup {<<strftime(<<2026, 5, 1>>), t>> : t \in BadDateTexts}

MonthTexts == {FormatInt(m) : m \in 0..13}

\* "HH:MM:SS" of a number of seconds since midnight
TimeText(seconds) ==
    ZeroPadded(seconds \div 3600, 2) \o <<":">> \o ZeroPadded((seconds % 3600) \div 60, 2)
        \o <<":">> \o ZeroPadded(seconds % 60, 2)

DateTimeText(date, seconds) == strftime(date) \o <<" ">> \o TimeText(seconds)

Moments ==
    {[type |-> "datetime", date |-> d, seconds |-> t] :
        d \in {<<2022, 1, 1>>, <<2026, 5, 1>>}, t \in {0, 45000}}

ExpiryTexts ==
    {DateTimeText(m.date, m.seconds) : m \in Moments} \cup {strftime(<<2022, 1, 1>>), <<"x">>}

PolicyNames == { <<"p">>, <<"a", " ", "b">> }

-----------------------------------------------------------------------------
(* DateTime agent: lambda_handler.py *)

\* GET /bdays
CalculateBusinessDays ==
    /\ pc = "idle"
    /\ \E request \in BusinessDaysRequests :
        LET parameters == <<Param(N_start_date, request[1]), Param(N_end_date, request[2])>>
            escaped    == escape_query_params(parameters)
            start_date == strptime_date(Query(escaped, N_start_date, <<>>))
            end_date   == strptime_date(Query(escaped, N_end_date, <<>>))
        IN  IF ~start_date.ok \/ ~end_date.ok
            THEN Fail("/bdays", parameters, "ValueError", <<>>, NoEnv)
            ELSE LET business_days == calculate_business_days(start_date.date, end_date.date) IN
                 Respond("/bdays", parameters, 200, FormatInt(business_days), business_days, <<>>, NoEnv)
    /\ passed' = Absent
    /\ UNCHANGED <<catalog, place_indexes>>

\* GET /fyr
GetFiscalYearRange ==
    /\ pc = "idle"
    /\ \E text \in DateTexts, month \in Optional(MonthTexts) :
        LET parameters == <<Param(N_date_str, text)>> \o Entry(N_fiscal_year_start_month, month)
            escaped    == escape_query_params(parameters)
            date_obj   == strptime_date(Query(escaped, N_date_str, <<>>))
            fiscal_year_start_month == ParseInt(Query(escaped, N_fiscal_year_start_month, <<"1", "0">>))
        IN  IF ~fiscal_year_start_month.ok
            THEN Fail("/fyr", parameters, "RequestValidationError", <<>>, NoEnv)
            ELSE IF ~date_obj.ok
            THEN Fail("/fyr", parameters, "ValueError", <<>>, NoEnv)
            ELSE LET r == get_fiscal_year_range(date_obj.date, fiscal_year_start_month.value) IN
                 IF r.exc # "none"
                 THEN Fail("/fyr", parameters, r.exc, <<>>, NoEnv)
                 ELSE Respond("/fyr", parameters, 200,
                              strftime(r.value.start_date) \o <<" ", "t", "o", " ">> \o strftime(r.value.end_date),
                              r.value, <<>>, NoEnv)
    /\ passed' = Absent
    /\ UNCHANGED <<catalog, place_indexes>>

\* GET /nbday
GetNextBusinessDay ==
    /\ pc = "idle"
    /\ \E text \in DateTexts :
        LET parameters == <<Param(N_date_str, text)>>
            escaped    == escape_query_params(parameters)
            date_obj   == strptime_date(Query(escaped, N_date_str, <<>>))
        IN  IF ~date_obj.ok
            THEN Fail("/nbday", parameters, "ValueError", <<>>, NoEnv)
            ELSE LET r == get_next_business_day(date_obj.date) IN
                 IF r.exc # "none"
                 THEN Fail("/nbday", parameters, r.exc, <<>>, NoEnv)
                 ELSE Respond("/nbday", parameters, 200, strftime(r.value), r.value, <<>>, NoEnv)
    /\ passed' = Absent
    /\ UNCHANGED <<catalog, place_indexes>>

\* the body f"The {policy_name} policy {verdict} {expiry_date}"
PolicyMessage(policy_name, verdict, expiry_date) ==
    [policy_name |-> policy_name, verdict |-> verdict, expiry_date |-> expiry_date]

\* GET /pdl
CheckPolicyDeadline ==
    /\ pc = "idle"
    /\ \E name \in PolicyNames, text \in ExpiryTexts, now \in Moments :
        LET parameters       == <<Param(N_policy_name, name), Param(N_expiry_date, text)>>
            escaped          == escape_query_params(parameters)
            policy_name      == Query(escaped, N_policy_name, <<>>)
            expiry_date      == Query(escaped, N_expiry_date, <<>>)
            current_datetime == get_date_time(now)
            parsed           == strptime_datetime(expiry_date)
            expiry_datetime  == [type |-> "datetime", date |-> parsed.date, seconds |-> parsed.seconds]
            clock            == [now |-> now]
        IN  IF ~parsed.ok
            THEN Fail("/pdl", parameters, "ValueError", <<>>, clock)
            ELSE LET expired == GreaterEqual(current_datetime, expiry_datetime) IN
                 IF expired.exc # "none"
                 THEN Fail("/pdl", parameters, expired.exc, <<>>, clock)
                 ELSE IF expired.value
                 THEN Respond("/pdl", parameters, 200,
                              PolicyMessage(policy_name, "has expired on", expiry_date),
                              current_datetime, <<>>, clock)
                 ELSE Respond("/pdl", parameters, 200,
                              PolicyMessage(policy_name, "is still valid and will expire on", expiry_date),
                              current_datetime, <<>>, clock)
    /\ passed' = Absent
    /\ UNCHANGED <<catalog, place_indexes>>

InitDateTime ==
    /\ pc = "idle"
    /\ op = "none"
    /\ args = <<>>
    /\ exc = "none"
    /\ statusCode = 0
    /\ body = <<>>
    /\ result = <<>>
    /\ calls = <<>>
    /\ env = NoEnv
    /\ response = <<>>
    /\ passed = Absent
    /\ globals = [tracer |-> "DateTimeAgent"]
    /\ route_calculators = {}
    /\ constructors = <<>>
    /\ catalog = <<>>
    /\ place_indexes = {}

NextDateTime ==
    CalculateBusinessDays \/ GetFiscalYearRange \/ GetNextBusinessDay \/ CheckPolicyDeadline \/ Deliver

SpecDateTime == InitDateTime /\ [][NextDateTime]_vars

-----------------------------------------------------------------------------
(* Claims about the DateTime agent *)

\* what the caller wrote, read as the route's format
CallerDate(name) == strptime_date(Query(args, name, <<>>))
CallerMonth == ParseInt(Query(args, N_fiscal_year_start_month, <<"1", "0">>))

\* Monday to Friday by the day number alone: day 1, 0001-01-01, is a Monday
IsMondayToFriday(ordinal) == ordinal % 7 \in 1..5

BusinessDaysDone ==
    /\ pc = "done" /\ op = "/bdays"
    /\ CallerDate(N_start_date).ok /\ CallerDate(N_end_date).ok

\* C5: calculate_business_days(start, end) returns the number of dates d with
\* start <= d < end that fall on Monday to Friday, and /bdays answers with that
\* number; for 2026-05-01 to 2026-05-15 the result is 10.
C5_BusinessDaysCounted ==
    BusinessDaysDone =>
        LET start_date == CallerDate(N_start_date).date
            end_date   == CallerDate(N_end_date).date
            days       == {o \in ToOrdinal(start_date)..(ToOrdinal(end_date) - 1) : IsMondayToFriday(o)}
        IN  /\ exc = "none"
            /\ statusCode = 200
            /\ result = Cardinality(days)
            /\ body = FormatInt(Cardinality(days))
            /\ (start_date = <<2026, 5, 1>> /\ end_date = <<2026, 5, 15>> => body = <<"1", "0">>)

\* C5's case: the request of the repository's test, 2026-05-01 to 2026-05-15
C5_Witness ==
    /\ BusinessDaysDone
    /\ CallerDate(N_start_date).date = <<2026, 5, 1>>
    /\ CallerDate(N_end_date).date = <<2026, 5, 15>>
    /\ result = 10

FiscalYearRangeDone ==
    /\ pc = "done" /\ op = "/fyr"
    /\ CallerDate(N_date_str).ok
    /\ CallerMonth.ok /\ CallerMonth.value \in 1..12

DateLessEq(a, b) == a = b \/ DateLess(a, b)

\* the fiscal year range of the date d for the start month m, as returned
ClaimedRange(d, m) ==
    /\ exc = "none"
    /\ result.start_date = <<get_fiscal_year(d, m), m, 1>>
    /\ NextDay(result.end_date) = <<get_fiscal_year(d, m) + 1, m, 1>>
    /\ DateLessEq(result.start_date, d)
    /\ DateLessEq(d, result.end_date)

\* C6 (as claimed): for every date d and every fiscal_year_start_month m in
\* 1..12, get_fiscal_year_range(d, m) returns (start, end) with start <= d <= end,
\* start day 1 of month m in year get_fiscal_year(d, m) and end the day before
\* day 1 of month m of the following year.
C6_FiscalYearRangeForEveryDate ==
    FiscalYearRangeDone => ClaimedRange(CallerDate(N_date_str).date, CallerMonth.value)

\* C6 (amended): the same for every date d and month m in 1..12 whose fiscal
\* year f = get_fiscal_year(d, m) has both f and f + 1 within the years 1..9999
\* of a date; for the other dates get_fiscal_year_range raises ValueError.
C6_FiscalYearRangeWithinDateRange ==
    FiscalYearRangeDone =>
        LET d == CallerDate(N_date_str).date
            m == CallerMonth.value
            f == IF d[2] >= m THEN d[1] ELSE d[1] - 1
        IN  IF YearInRange(f) /\ YearInRange(f + 1)
            THEN ClaimedRange(d, m) /\ result.start_date[1] = f
            ELSE exc = "ValueError"

\* C6's case: a date before the start month of its calendar year, whose fiscal
\* year began the year before
C6_Witness ==
    /\ FiscalYearRangeDone
    /\ exc = "none"
    /\ CallerDate(N_date_str).date[2] < CallerMonth.value
    /\ result.start_date[1] = CallerDate(N_date_str).date[1] - 1
    /\ result.end_date[1] = CallerDate(N_date_str).date[1]

NextBusinessDayDone == pc = "done" /\ op = "/nbday" /\ CallerDate(N_date_str).ok

\* C7 (as claimed): get_next_business_day(d) returns the earliest date strictly
\* after d that falls on Monday to Friday, and /nbday answers with statusCode 200
\* and that date formatted YYYY-MM-DD.
C7_NextBusinessDayReturned ==
    NextBusinessDayDone =>
        LET d == CallerDate(N_date_str).date
            k == CHOOSE k \in 1..3 : IsMondayToFriday(ToOrdinal(d) + k)
                                     /\ \A j \in 1..(k - 1) : ~IsMondayToFriday(ToOrdinal(d) + j)
        IN  Reachable(d, k) =>
                /\ exc = "none"
                /\ statusCode = 200
                /\ result = AddDays(d, k)
                /\ body = strftime(AddDays(d, k))

PolicyDeadlineDone == pc = "done" /\ op = "/pdl" /\ strptime_datetime(Query(args, N_expiry_date, <<>>)).ok

\* C8 (as claimed): for every policy_name and every expiry_date in
\* 'YYYY-MM-DD HH:MM:SS' format, /pdl answers with statusCode 200 and the message
\* 'has expired on <expiry_date>' when the current date-time is at or after the
\* expiry date-time, and 'is still valid and will expire on <expiry_date>' otherwise.
C8_PolicyDeadlineAnswered ==
    PolicyDeadlineDone =>
        LET expiry_date == Query(args, N_expiry_date, <<>>)
            parsed      == strptime_datetime(expiry_date)
            expiry      == [type |-> "datetime", date |-> parsed.date, seconds |-> parsed.seconds]
        IN  /\ exc = "none"
            /\ statusCode = 200
            /\ body.policy_name = Query(args, N_policy_name, <<>>)
            /\ body.expiry_date = expiry_date
            /\ body.verdict = IF GreaterEqual(env.now, expiry).value
                              THEN "has expired on"
                              ELSE "is still valid and will expire on"

-----------------------------------------------------------------------------
(* WeatherForecast agent: weather.py *)

GetCall(url) == [api |-> "GET", url |-> url]

\* WeatherForecast._get_periods
_get_periods(json_data, num_periods) ==
    IF json_data.type # "dict" THEN Raise("Exception", <<>>)
    ELSE LET periods == IF "properties" \in json_data.keys THEN json_data.periods ELSE <<>> IN
         IF num_periods.given
         THEN (IF num_periods.value < 0 THEN Raise("Exception", <<>>)
               ELSE Return(Slice(periods, num_periods.value), <<>>))
         ELSE Return(periods, <<>>)

\* a slip: a request that failed yields an empty dictionary
_make_request_empty_on_failure(answer) ==
    IF answer.outcome = "ok" THEN answer.json
    ELSE [type |-> "dict", keys |-> {}, periods |-> <<>>, forecast_host_allowed |-> FALSE]

\* WeatherForecast._make_request for a URL of an allowed host: the JSON of the
\* answer, or None when requests.get or raise_for_status raised (the error is
\* logged and the method falls off its end)
_make_request(answer) ==
    IF answer.outcome = "ok" THEN answer.json ELSE [type |-> "NoneType"]

\* a slip: a points request that failed is sent a second time
get_forecast_retrying(weather, num_periods) ==
    LET grid_forecast_response == _make_request(weather.points) IN
    IF grid_forecast_response.type # "dict"
    THEN Raise("TypeError", <<GetCall("points"), GetCall("points")>>)
    ELSE IF "properties" \notin grid_forecast_response.keys
    THEN Raise("KeyError", <<GetCall("points")>>)
    ELSE IF ~grid_forecast_response.forecast_host_allowed
    THEN Raise("Exception", <<GetCall("points")>>)
    ELSE LET r == _get_periods(_make_request(weather.forecast), num_periods) IN
         [exc |-> r.exc, value |-> r.value, calls |-> <<GetCall("points"), GetCall("forecast")>>]

\* WeatherForecast.get_forecast after the constructor: _fetch_forecast_data,
\* then _get_periods; weather holds the answers of api.weather.gov
get_forecast(weather, num_periods) ==
    LET grid_forecast_response == _make_request(weather.points) IN
    IF grid_forecast_response.type # "dict"
    THEN Raise("TypeError", <<GetCall("points")>>)
    ELSE IF "properties" \notin grid_forecast_response.keys
    THEN Raise("KeyError", <<GetCall("points")>>)
    ELSE IF ~grid_forecast_response.forecast_host_allowed
    THEN Raise("Exception", <<GetCall("points")>>)
    ELSE LET r == _get_periods(_make_request(weather.forecast), num_periods) IN
         [exc |-> r.exc, value |-> r.value, calls |-> <<GetCall("points"), GetCall("forecast")>>]

\* WeatherForecast.__init__: the coordinates are valid
ValidCoordinates(latitude, longitude) ==
    (latitude >= 0 - 90 /\ latitude <= 90) /\ (longitude >= 0 - 180 /\ longitude <= 180)

-----------------------------------------------------------------------------
(* WeatherForecast agent: geolocation.py *)

LocationCall(operation) == [api |-> operation, url |-> "location"]

\* PlaceIndexService.__init__ with create_place_index: the calls issued and the
\* place indexes that exist afterwards; location holds the service's answers.
\* list_place_indexes answers [] on ClientError, and create_place_index swallows
\* every ClientError
PlaceIndexService(index_name, indexes, location) ==
    LET existing_indexes == IF location.list = "ok" THEN indexes ELSE {} IN
    IF index_name \in existing_indexes
    THEN [indexes |-> indexes, calls |-> <<LocationCall("ListPlaceIndexes")>>]
    ELSE [indexes |-> IF index_name \notin indexes /\ location.create = "ok"
                      THEN indexes \cup {index_name} ELSE indexes,
          calls   |-> <<LocationCall("ListPlaceIndexes"), LocationCall("CreatePlaceIndex")>>]

\* PlaceIndexService.get_point_coordinates: an empty Text fails the client's
\* parameter validation, which is no ClientError; a ClientError and an empty
\* result list are logged and the method falls off its end, returning None
place_get_point_coordinates(location_description, index_exists, location) ==
    IF location_description = <<>>
    THEN Raise("ParamValidationError", <<>>)
    ELSE IF ~index_exists \/ location.search = "ClientError"
    THEN Return([type |-> "NoneType"], <<LocationCall("SearchPlaceIndexForText")>>)
    ELSE IF location.search = "NoResult"
    THEN Return([type |-> "NoneType"], <<LocationCall("SearchPlaceIndexForText")>>)
    ELSE Return([type |-> "dict", Latitude |-> location.point[2], Longitude |-> location.point[1]],
                <<LocationCall("SearchPlaceIndexForText")>>)

-----------------------------------------------------------------------------
(* WeatherForecast agent: the requests and answers the model draws from *)

LatitudeTexts == {FormatInt(n) : n \in {0 - 91, 0 - 90, 47, 91}} \cup {<<"x">>}
LongitudeTexts == {FormatInt(n) : n \in {0 - 181, 0 - 122, 180, 181}}
PeriodCountTexts == {FormatInt(n) : n \in {0 - 1, 0, 1, 5, 6}}

Forecast(n) ==
    [type |-> "dict", keys |-> {"properties"}, periods |-> [k \in 1..n |-> [number |-> k]]]

PointsJson(allowed) == [type |-> "dict", keys |-> {"properties"}, forecast_host_allowed |-> allowed]

Failed(how) == [outcome |-> how, json |-> [type |-> "NoneType"]]
Ok(json) == [outcome |-> "ok", json |-> json]

\* what api.weather.gov answers to the two requests of one invocation
WeatherAnswers ==
    {[points |-> Failed(how), forecast |-> Failed(how)] : how \in {"HTTPError", "Timeout"}}
    \cup {[points |-> Ok([type |-> "dict", keys |-> {}, forecast_host_allowed |-> FALSE]),
           forecast |-> Failed("HTTPError")]}
    \cup {[points |-> Ok(PointsJson(FALSE)), forecast |-> Failed("HTTPError")]}
    \cup {[points |-> Ok(PointsJson(TRUE)), forecast |-> Failed(how)] : how \in {"HTTPError", "Timeout"}}
    \cup {[points |-> Ok(PointsJson(TRUE)), forecast |-> Ok([type |-> "dict", keys |-> {}, periods |-> <<>>])]}
    \cup {[points |-> Ok(PointsJson(TRUE)), forecast |-> Ok(Forecast(n))] : n \in 0..MaxPeriods}

\* what Amazon Location answers during one invocation
LocationAnswers ==
    [list : {"ok", "ClientError"}, create : {"ok", "ClientError"},
     search : {"ok", "ClientError", "NoResult"}, point : {<<0 - 122, 47>>}]

LocationTexts ==
    { <<>>, <<"a">>, <<"a", " ", "b">>, <<"a", ",", "b">>, <<"%", "2", "0">>, <<"a", "+", "b">> }

DemoPlaceIndex == "My-Demo-Place-Index"

-----------------------------------------------------------------------------
(* WeatherForecast agent: lambda_handler.py *)

\* GET /forecast
GetForecast ==
    /\ pc = "idle"
    /\ \E lat \in LatitudeTexts, lon \in LongitudeTexts, num \in Optional(PeriodCountTexts),
          weather \in WeatherAnswers :
        LET parameters == <<Param(N_latitude, lat), Param(N_longitude, lon)>>
                              \o Entry(N_num_forecast_periods, num)
            escaped    == escape_query_params(parameters)
            latitude   == ParseInt(Query(escaped, N_latitude, <<>>))
            longitude  == ParseInt(Query(escaped, N_longitude, <<>>))
            periods    == ParseInt(Query(escaped, N_num_forecast_periods, <<"0">>))
            num_forecast_periods ==
                IF HasParam(escaped, N_num_forecast_periods) THEN Given(periods.value) ELSE Absent
            answers    == [weather |-> weather]
        IN  IF ~latitude.ok \/ ~longitude.ok \/ ~periods.ok
            THEN Fail("/forecast", parameters, "RequestValidationError", <<>>, answers)
            ELSE IF ~ValidCoordinates(latitude.value, longitude.value)
            THEN Fail("/forecast", parameters, "Exception", <<>>, answers)
            ELSE LET r == get_forecast(weather, num_forecast_periods) IN
                 IF r.exc # "none"
                 THEN Fail("/forecast", parameters, r.exc, r.calls, answers)
                 ELSE Respond("/forecast", parameters, 200, r.value, r.value, r.calls, answers)
    /\ passed' = Absent
    /\ UNCHANGED <<catalog, place_indexes>>

\* GET /coords
GetPointCoordinates ==
    /\ pc = "idle"
    /\ \E text \in LocationTexts, location \in LocationAnswers :
        LET parameters == <<Param(N_location_description, text)>>
            escaped    == escape_query_params(parameters)
            location_description == Query(escaped, N_location_description, <<>>)
            service    == PlaceIndexService(DemoPlaceIndex, place_indexes, location)
            r          == place_get_point_coordinates(unescape(location_description),
                                                      DemoPlaceIndex \in service.indexes, location)
            answers    == [location |-> location]
        IN  /\ place_indexes' = service.indexes
            /\ passed' = Given(unescape(location_description))
            /\ IF r.exc # "none"
               THEN Respond("/coords", parameters, 500,
                            [type |-> "dict", error |-> "Failed to retrieve coordinates"],
                            <<>>, service.calls \o r.calls, answers)
               ELSE Respond("/coords", parameters, 200, r.value, r.value,
                            service.calls \o r.calls, answers)
    /\ UNCHANGED catalog

InitWeather ==
    /\ pc = "idle"
    /\ op = "none"
    /\ args = <<>>
    /\ exc = "none"
    /\ statusCode = 0
    /\ body = <<>>
    /\ result = <<>>
    /\ calls = <<>>
    /\ env = NoEnv
    /\ response = <<>>
    /\ passed = Absent
    /\ globals = [tracer |-> "WeatherForecastAgent"]
    /\ route_calculators = {}
    /\ constructors = <<>>
    /\ catalog = <<>>
    /\ place_indexes \in {{}, {DemoPlaceIndex}}

NextWeather == GetForecast \/ GetPointCoordinates \/ Deliver

SpecWeather == InitWeather /\ [][NextWeather]_vars

-----------------------------------------------------------------------------
(* Claims about the WeatherForecast agent *)

\* the limit the /forecast route's parameter description states: "Maximum is 5."
DocumentedMaximumPeriods == 5

\* C9 (as claimed): /forecast returns at most 5 forecast periods, for every
\* num_forecast_periods value, values above 5 and the absent value included.
C9_AtMostFivePeriods ==
    (pc = "done" /\ op = "/forecast" /\ statusCode = 200) => Len(body) <= DocumentedMaximumPeriods

\* C10 (as claimed): whenever the coordinate lookup behind /coords fails (the
\* location service returns an error, or no result for the description), the
\* endpoint answers with statusCode 500 and body {"error": "Failed to retrieve
\* coordinates"}; statusCode 200 comes only with a body holding Latitude and
\* Longitude.
C10_FailedLookupAnswered500 ==
    (pc = "done" /\ op = "/coords") =>
        /\ (Query(args, N_location_description, <<>>) # <<>>
               /\ (env.location.search \in {"ClientError", "NoResult"} \/ DemoPlaceIndex \notin place_indexes)
            => statusCode = 500 /\ body = [type |-> "dict", error |-> "Failed to retrieve coordinates"])
        /\ (statusCode = 200 => body.type = "dict" /\ {"Latitude", "Longitude"} \subseteq DOMAIN body)

-----------------------------------------------------------------------------
(* Geolocation agent: geolocation.py *)

\* the names of the parameters of the Geolocation routes
N_street_number == <<"s", "t", "r", "e", "e", "t", "_", "n", "u", "m", "b", "e", "r">>
N_street_name == <<"s", "t", "r", "e", "e", "t", "_", "n", "a", "m", "e">>
N_city == <<"c", "i", "t", "y">>
N_state == <<"s", "t", "a", "t", "e">>
N_zip_code == <<"z", "i", "p", "_", "c", "o", "d", "e">>
N_departure_longitude == <<"d", "e", "p", "a", "r", "t", "u", "r", "e", "_", "l", "o", "n", "g", "i", "t", "u", "d", "e">>
N_departure_latitude == <<"d", "e", "p", "a", "r", "t", "u", "r", "e", "_", "l", "a", "t", "i", "t", "u", "d", "e">>
N_destination_longitude == <<"d", "e", "s", "t", "i", "n", "a", "t", "i", "o", "n", "_", "l", "o", "n", "g", "i", "t", "u", "d", "e">>
N_destination_latitude == <<"d", "e", "s", "t", "i", "n", "a", "t", "i", "o", "n", "_", "l", "a", "t", "i", "t", "u", "d", "e">>
N_travel_mode == <<"t", "r", "a", "v", "e", "l", "_", "m", "o", "d", "e">>
N_distance_unit == <<"d", "i", "s", "t", "a", "n", "c", "e", "_", "u", "n", "i", "t">>

SamplePlaceIndex == "SamplePlaceIndex"
SampleRouteCalculator == "SampleRouteCalculator"

\* the requests the location client sends
ListPlaceIndexesCall == [api |-> "ListPlaceIndexes"]
CreatePlaceIndexCall(index_name) == [api |-> "CreatePlaceIndex", IndexName |-> index_name]
ListRouteCalculatorsCall == [api |-> "ListRouteCalculators"]
CreateRouteCalculatorCall(calculator_name) ==
    [api |-> "CreateRouteCalculator", CalculatorName |-> calculator_name]
SearchPlaceIndexForTextCall(index_name, location_description) ==
    [api |-> "SearchPlaceIndexForText", IndexName |-> index_name, Text |-> location_description]
SearchPlaceIndexForPositionCall(index_name, coordinates) ==
    [api |-> "SearchPlaceIndexForPosition", IndexName |-> index_name, Position |-> coordinates]
CalculateRouteCall(calculator_name, departure_position, destination_position, travel_mode, distance_unit) ==
    [api |-> "CalculateRoute", CalculatorName |-> calculator_name,
     DeparturePosition |-> departure_position, DestinationPosition |-> destination_position,
     TravelMode |-> travel_mode, DistanceUnit |-> distance_unit]

None == [type |-> "NoneType"]

\* PlaceIndexService.list_place_indexes: the names listed, [] on ClientError
geo_list_place_indexes(indexes, location) ==
    IF location.list = "ok" THEN indexes ELSE {}

\* PlaceIndexService.create_place_index, run in one piece: the place indexes
\* that exist afterwards and the calls issued.  Every ClientError of the create
\* call is swallowed (ConflictException silently, the others logged).
geo_create_place_index(index_name, indexes, location) ==
    LET existing_indexes == geo_list_place_indexes(indexes, location) IN
    IF index_name \in existing_indexes
    THEN [indexes |-> indexes, calls |-> <<ListPlaceIndexesCall>>]
    ELSE [indexes |-> IF index_name \notin indexes /\ location.create = "ok"
                      THEN indexes \cup {index_name} ELSE indexes,
          calls   |-> <<ListPlaceIndexesCall, CreatePlaceIndexCall(index_name)>>]

\* what search_place_index_for_text of the client does: the client rejects an
\* empty Text before sending (ParamValidationError, which is no ClientError); a
\* missing index and a service error are ClientErrors
SearchOutcome(index_name, location_description, indexes, location) ==
    IF location_description = <<>> THEN "ParamValidationError"
    ELSE IF index_name \notin indexes THEN "ClientError"
    ELSE location.search

\* PlaceIndexService.search_place_index_for_text
geo_search_place_index_for_text(index_name, location_description, indexes, location) ==
    LET outcome == SearchOutcome(index_name, location_description, indexes, location) IN
    IF outcome = "ParamValidationError" THEN Raise("ParamValidationError", <<>>)
    ELSE IF outcome = "ok"
    THEN Return([type |-> "dict", Label |-> location.label],
                <<SearchPlaceIndexForTextCall(index_name, location_description)>>)
    ELSE Return(None, <<SearchPlaceIndexForTextCall(index_name, location_description)>>)

\* PlaceIndexService.get_point_coordinates
geo_get_point_coordinates(index_name, location_description, indexes, location) ==
    LET outcome == SearchOutcome(index_name, location_description, indexes, location) IN
    IF outcome = "ParamValidationError" THEN Raise("ParamValidationError", <<>>)
    ELSE IF outcome = "ok"
    THEN Return([type |-> "dict", Latitude |-> location.point[2], Longitude |-> location.point[1]],
                <<SearchPlaceIndexForTextCall(index_name, location_description)>>)
    ELSE Return(None, <<SearchPlaceIndexForTextCall(index_name, location_description)>>)

\* PlaceIndexService.reverse_geocode
geo_reverse_geocode(index_name, coordinates, indexes, location) ==
    IF index_name \in indexes /\ location.search = "ok"
    THEN Return([type |-> "dict", address |-> location.label],
                <<SearchPlaceIndexForPositionCall(index_name, coordinates)>>)
    ELSE Return(None, <<SearchPlaceIndexForPositionCall(index_name, coordinates)>>)

\* RouteService.format_duration
format_duration(seconds) ==
    LET hours     == seconds \div 3600
        remainder == seconds % 3600
        minutes   == remainder \div 60
    IN  FormatInt(hours) \o <<" ", "h", "o", "u", "r", "s", ",", " ">> \o FormatInt(minutes) \o <<" ", "m", "i", "n", "u", "t", "e", "s", ",", " ">>
            \o FormatInt(remainder % 60) \o <<" ", "s", "e", "c", "o", "n", "d", "s">>

\* a slip: summarize_route asked for the leg details, the ends of one leg
\* reverse-geocoded through the new service
summarize_route_with_leg_details(route_response, indexes, location) ==
    LET place_index_service == geo_create_place_index(SamplePlaceIndex, indexes, location)
        lookup == SearchPlaceIndexForPositionCall(SamplePlaceIndex, location.point)
    IN
    [value   |-> [type |-> "dict",
                  DataSource |-> route_response.DataSource,
                  TotalDistance |-> [Value |-> route_response.Distance, Unit |-> route_response.DistanceUnit],
                  TotalDuration |-> format_duration(route_response.DurationSeconds),
                  Legs |-> <<[LegNumber |-> 1]>>],
     indexes |-> place_index_service.indexes,
     calls   |-> place_index_service.calls \o <<lookup, lookup>>]

\* RouteService.summarize_route with print_leg_details = False: it constructs a
\* PlaceIndexService with the default index name, which lists the place
\* indexes and creates SamplePlaceIndex when the listing does not hold it
summarize_route(route_response, indexes, location) ==
    LET place_index_service == geo_create_place_index(SamplePlaceIndex, indexes, location) IN
    [value   |-> [type |-> "dict",
                  DataSource |-> route_response.DataSource,
                  TotalDistance |-> [Value |-> route_response.Distance, Unit |-> route_response.DistanceUnit],
                  TotalDuration |-> format_duration(route_response.DurationSeconds),
                  Legs |-> <<>>],
     indexes |-> place_index_service.indexes,
     calls   |-> place_index_service.calls]

\* RouteService.calculate_route
geo_calculate_route(calculator_name, departure_position, destination_position, travel_mode, distance_unit, indexes, calculators, location) ==
    LET call == CalculateRouteCall(calculator_name, departure_position, destination_position,
                                   travel_mode, distance_unit) IN
    IF calculator_name \in calculators /\ location.route = "ok"
    THEN LET route_summary == summarize_route(
                 [DataSource |-> "Esri", Distance |-> location.distance,
                  DistanceUnit |-> distance_unit, DurationSeconds |-> location.seconds],
                 indexes, location)
         IN  [exc |-> "none", value |-> route_summary.value, indexes |-> route_summary.indexes,
              calls |-> <<call>> \o route_summary.calls]
    ELSE [exc |-> "none", value |-> None, indexes |-> indexes, calls |-> <<call>>]

\* RouteService.create_route_calculator, run in one piece
geo_create_route_calculator(calculator_name, calculators, location) ==
    LET existing_calculators == IF location.list = "ok" THEN calculators ELSE {} IN
    IF calculator_name \in existing_calculators
    THEN [calculators |-> calculators, calls |-> <<ListRouteCalculatorsCall>>]
    ELSE [calculators |-> IF calculator_name \notin calculators /\ location.create = "ok"
                          THEN calculators \cup {calculator_name} ELSE calculators,
          calls       |-> <<ListRouteCalculatorsCall, CreateRouteCalculatorCall(calculator_name)>>]

-----------------------------------------------------------------------------
(* float(text), as far as the routes use it *)

IsDigits(s) == \A i \in 1..Len(s) : IsDigit(s[i])

\* digits with at most one point and at least one digit
IsDecimal(s) ==
    \/ s # <<>> /\ IsDigits(s)
    \/ \E i \in 1..Len(s) :
          /\ s[i] = "."
          /\ IsDigits(SubSeq(s, 1, i - 1)) /\ IsDigits(SubSeq(s, i + 1, Len(s)))
          /\ Len(s) >= 2

\* float(s): ValueError unless s is an optional sign followed by a decimal
\* number, "nan", "inf" or "infinity" in any case; the float is kept as its text
ParseFloat(s) ==
    LET unsigned == IF s # <<>> /\ s[1] \in {"+", "-"} THEN Tail(s) ELSE s
        word     == Lower(unsigned)
    IN  IF word = <<"n", "a", "n">> THEN [ok |-> TRUE, nan |-> TRUE, value |-> s]
        ELSE IF word \in {<<"i", "n", "f">>, <<"i", "n", "f", "i", "n", "i", "t", "y">>} \/ IsDecimal(unsigned)
        THEN [ok |-> TRUE, nan |-> FALSE, value |-> s]
        ELSE [ok |-> FALSE, nan |-> FALSE, value |-> s]

-----------------------------------------------------------------------------
(* Geolocation agent: the requests and answers the model draws from *)

StreetNumbers == {<<"1">>}
StreetNames == {<<"a">>, <<"a", " ", "b">>}
Cities == {<<"c">>, <<"c", " ", "d">>}
States == {<<"s">>}
ZipCodes == {<<"9">>}

CoordinateTexts == {<<"-", "7", "4">>, <<"4", "0", ".", "5">>, <<"2", "0", "0">>, <<"n", "a", "n">>, <<"i", "n", "f">>, <<"x">>}
SomeCoordinateTexts == {<<"4", "0", ".", "5">>, <<"N", "a", "N">>}
TravelModes == {<<"W", "a", "l", "k", "i", "n", "g">>}
DistanceUnits == {<<"K", "i", "l", "o", "m", "e", "t", "e", "r", "s">>}

\* what Amazon Location answers during one invocation of the Geolocation agent
GeoAnswers(listings, searches, routes, durations) ==
    [list : listings, create : listings,
     search : searches, route : routes, point : {<<0 - 122, 47>>},
     label : {<<"l">>}, distance : {3}, seconds : durations]

\* the place indexes and route calculators that can exist before the module is loaded
IndexesBefore == SUBSET {DemoPlaceIndex, SamplePlaceIndex}
CalculatorsBefore == SUBSET {SampleRouteCalculator}

-----------------------------------------------------------------------------
(* Geolocation agent: lambda_handler.py *)

\* the invocation ends with the response {"status": code, "body": b}
RespondWithStatus(route, parameters, code, b, res, cs, e) ==
    /\ pc' = "done"
    /\ op' = route
    /\ args' = parameters
    /\ exc' = "none"
    /\ statusCode' = 0
    /\ body' = b
    /\ result' = res
    /\ calls' = cs
    /\ env' = e
    /\ response' = [status |-> code, body |-> b]
    /\ UNCHANGED <<globals, route_calculators, constructors>>

\* f"{street_number} {street_name}, {city}, {state} {zip_code}"
PostalAddress(street_number, street_name, city, state, zip_code) ==
    street_number \o <<" ">> \o street_name \o <<",", " ">> \o city \o <<",", " ">>
        \o state \o <<" ">> \o zip_code

\* GET /geocode
Geocode ==
    /\ pc = "idle"
    /\ \E number \in StreetNumbers, street \in StreetNames, town \in Cities, st \in States,
          zip \in ZipCodes, location \in GeoAnswers({"ok"}, {"ok", "ClientError", "NoResult"}, {"ok"}, {59}) :
        LET parameters == <<Param(N_street_number, number), Param(N_street_name, street),
                            Param(N_city, town), Param(N_state, st), Param(N_zip_code, zip)>>
            escaped    == escape_query_params(parameters)
            postal_address ==
                PostalAddress(Query(escaped, N_street_number, <<>>), Query(escaped, N_street_name, <<>>),
                              Query(escaped, N_city, <<>>), Query(escaped, N_state, <<>>),
                              Query(escaped, N_zip_code, <<>>))
            coordinates == geo_get_point_coordinates(globals.place_index_service.index_name,
                                                     postal_address, place_indexes, location)
            answers    == [location |-> location]
        IN  /\ passed' = Given(postal_address)
            /\ IF coordinates.exc # "none"
               THEN Fail("/geocode", parameters, coordinates.exc, coordinates.calls, answers)
               ELSE IF coordinates.value.type = "dict"
               THEN RespondWithStatus("/geocode", parameters, 200, coordinates.value,
                                      coordinates.value, coordinates.calls, answers)
               ELSE Fail("/geocode", parameters, "NotFoundError", coordinates.calls, answers)
    /\ UNCHANGED <<catalog, place_indexes>>

\* GET /search
SearchPlaceIndexForText ==
    /\ pc = "idle"
    /\ \E description \in LocationTexts, location \in GeoAnswers({"ok"}, {"ok", "ClientError", "NoResult"}, {"ok"}, {59}) :
        LET parameters == <<Param(N_location_description, description)>>
            escaped    == escape_query_params(parameters)
            location_description == Query(escaped, N_location_description, <<>>)
            search_result == geo_search_place_index_for_text(globals.place_index_service.index_name,
                                                             location_description, place_indexes, location)
            answers    == [location |-> location]
        IN  /\ passed' = Given(location_description)
            /\ IF search_result.exc # "none"
               THEN Fail("/search", parameters, search_result.exc, search_result.calls, answers)
               ELSE IF search_result.value.type = "dict"
               THEN RespondWithStatus("/search", parameters, 200, search_result.value,
                                      search_result.value, search_result.calls, answers)
               ELSE Fail("/search", parameters, "NotFoundError", search_result.calls, answers)
    /\ UNCHANGED <<catalog, place_indexes>>

\* GET /rev-geocode
ReverseGeocode ==
    /\ pc = "idle"
    /\ \E x \in CoordinateTexts, y \in CoordinateTexts,
          location \in GeoAnswers({"ok"}, {"ok", "ClientError", "NoResult"}, {"ok"}, {59}) :
        LET parameters == <<Param(N_longitude, x), Param(N_latitude, y)>>
            escaped    == escape_query_params(parameters)
            lon        == ParseFloat(Query(escaped, N_longitude, <<>>))
            lat        == ParseFloat(Query(escaped, N_latitude, <<>>))
            answers    == [location |-> location]
        IN  IF ~lon.ok \/ ~lat.ok \/ lon.nan \/ lat.nan
            THEN Fail("/rev-geocode", parameters, "ValueError", <<>>, answers)
            ELSE LET address == geo_reverse_geocode(globals.place_index_service.index_name,
                                                    <<lon.value, lat.value>>, place_indexes, location)
                 IN  IF address.value.type = "dict"
                     THEN RespondWithStatus("/rev-geocode", parameters, 200, address.value,
                                            address.value, address.calls, answers)
                     ELSE Fail("/rev-geocode", parameters, "NotFoundError", address.calls, answers)
    /\ passed' = Absent
    /\ UNCHANGED <<catalog, place_indexes>>

\* GET /route
CalculateRoute ==
    /\ pc = "idle"
    /\ \E x1 \in CoordinateTexts, y1 \in SomeCoordinateTexts, x2 \in {<<"-", "7", "4">>}, y2 \in SomeCoordinateTexts,
          mode \in Optional(TravelModes), unit \in Optional(DistanceUnits),
          location \in GeoAnswers({"ok", "ClientError"}, {"ok"}, {"ok", "ClientError"}, {59, 3725}) :
        LET parameters == <<Param(N_departure_longitude, x1), Param(N_departure_latitude, y1),
                            Param(N_destination_longitude, x2), Param(N_destination_latitude, y2)>>
                              \o Entry(N_travel_mode, mode) \o Entry(N_distance_unit, unit)
            escaped    == escape_query_params(parameters)
            departure_long   == ParseFloat(Query(escaped, N_departure_longitude, <<>>))
            departure_lat    == ParseFloat(Query(escaped, N_departure_latitude, <<>>))
            destination_long == ParseFloat(Query(escaped, N_destination_longitude, <<>>))
            destination_lat  == ParseFloat(Query(escaped, N_destination_latitude, <<>>))
            travel_mode      == Query(escaped, N_travel_mode, <<"C", "a", "r">>)
            distance_unit    == Query(escaped, N_distance_unit, <<"M", "i", "l", "e", "s">>)
            numbers    == {departure_long, departure_lat, destination_long, destination_lat}
            answers    == [location |-> location]
        IN  IF \E number \in numbers : ~number.ok \/ number.nan
            THEN Fail("/route", parameters, "ValueError", <<>>, answers)
                 /\ UNCHANGED place_indexes
            ELSE LET route == geo_calculate_route(globals.route_service.calculator_name,
                                  <<departure_long.value, departure_lat.value>>,
                                  <<destination_long.value, destination_lat.value>>,
                                  travel_mode, distance_unit, place_indexes, route_calculators, location)
                 IN  /\ place_indexes' = route.indexes
                     /\ IF route.value.type = "dict"
                        THEN RespondWithStatus("/route", parameters, 200, route.value, route.value,
                                               route.calls, answers)
                        ELSE Fail("/route", parameters, "NotFoundError", route.calls, answers)
    /\ passed' = Absent
    /\ UNCHANGED catalog

\* the module is loaded: the two services are constructed, and each constructor
\* lists and, when its name is not listed, creates its resource
InitGeolocation ==
    /\ pc = "idle"
    /\ op = "none"
    /\ args = <<>>
    /\ exc = "none"
    /\ statusCode = 0
    /\ body = <<>>
    /\ result = <<>>
    /\ calls = <<>>
    /\ env = NoEnv
    /\ response = <<>>
    /\ passed = Absent
    /\ globals = [tracer |-> "GeolocationAgent",
                  place_index_service |-> [index_name |-> DemoPlaceIndex],
                  route_service |-> [calculator_name |-> SampleRouteCalculator]]
    /\ catalog = <<>>
    /\ \E indexes \in IndexesBefore, calculators \in CalculatorsBefore,
          location \in GeoAnswers({"ok", "ClientError"}, {"ok"}, {"ok"}, {59}) :
        /\ place_indexes = geo_create_place_index(DemoPlaceIndex, indexes, location).indexes
        /\ route_calculators =
               geo_create_route_calculator(SampleRouteCalculator, calculators, location).calculators
    /\ constructors = <<>>

NextGeolocation ==
    Geocode \/ SearchPlaceIndexForText \/ ReverseGeocode \/ CalculateRoute \/ Deliver

SpecGeolocation == InitGeolocation /\ [][NextGeolocation]_vars

-----------------------------------------------------------------------------
(* Example agent: weather_api.py and lambda_handler.py *)

N_station_id == <<"s", "t", "a", "t", "i", "o", "n", "_", "i", "d">>

\* f"{base_url}/{station_id}/observations/latest"
StationUrl(station_id) ==
    <<"h", "t", "t", "p", "s", ":", "/", "/", "a", "p", "i", ".", "w", "e", "a", "t", "h", "e", "r", ".", "g", "o", "v", "/", "s", "t", "a", "t", "i", "o", "n", "s">> \o <<"/">> \o station_id \o <<"/", "o", "b", "s", "e", "r", "v", "a", "t", "i", "o", "n", "s", "/", "l", "a", "t", "e", "s", "t">>

\* urlparse(url).netloc: what stands between "//" and the next "/"
RECURSIVE UpToSlash(_)
UpToSlash(s) == IF s = <<>> \/ s[1] = "/" THEN <<>> ELSE <<s[1]>> \o UpToSlash(Tail(s))

netloc(url) == UpToSlash(SubSeq(url, Len(<<"h", "t", "t", "p", "s", ":", "/", "/">>) + 1, Len(url)))

\* get_weather_data: the request is sent when the host is allowed;
\* raise_for_status and the request's own errors are not caught
get_weather_data(station_id, answer) ==
    LET url == StationUrl(station_id) IN
    IF netloc(url) # <<"a", "p", "i", ".", "w", "e", "a", "t", "h", "e", "r", ".", "g", "o", "v">> THEN Raise("RuntimeError", <<>>)
    ELSE IF answer.outcome # "ok" THEN Raise(answer.outcome, <<GetCall(url)>>)
    ELSE IF "properties" \notin answer.json.keys THEN Raise("KeyError", <<GetCall(url)>>)
    ELSE Return([temperature |-> answer.json.temperature,
                 description |-> answer.json.textDescription,
                 data |-> answer.json], <<GetCall(url)>>)

StationIds == {<<"K", "N", "Y", "C">>, <<"K", " ", "N", "Y", "C">>, <<"a", "/", "b">>, <<>>}

Observation(t) ==
    [type |-> "dict", keys |-> {"properties"}, temperature |-> t, textDescription |-> <<"C", "l", "e", "a", "r">>]

\* what api.weather.gov answers to the observation request
StationAnswers ==
    {Failed(how) : how \in {"HTTPError", "Timeout"}}
    \cup {Ok([type |-> "dict", keys |-> {}])}
    \cup {Ok(Observation(t)) : t \in {0 - 3, 21}}

\* GET /forecast of the Example agent; its handler has no middleware
GetWeather ==
    /\ pc = "idle"
    /\ \E station \in StationIds, answer \in StationAnswers :
        LET parameters   == <<Param(N_station_id, station)>>
            station_id   == Query(parameters, N_station_id, <<>>)
            weather_data == get_weather_data(station_id, answer)
            answers      == [station |-> answer]
        IN  IF weather_data.exc # "none"
            THEN Fail("/forecast", parameters, weather_data.exc, weather_data.calls, answers)
            ELSE Respond("/forecast", parameters, 200, weather_data.value.data, weather_data.value,
                         weather_data.calls, answers)
    /\ passed' = Absent
    /\ UNCHANGED <<catalog, place_indexes>>

InitExample ==
    /\ pc = "idle"
    /\ op = "none"
    /\ args = <<>>
    /\ exc = "none"
    /\ statusCode = 0
    /\ body = <<>>
    /\ result = <<>>
    /\ calls = <<>>
    /\ env = NoEnv
    /\ response = <<>>
    /\ passed = Absent
    /\ globals = [tracer |-> "ExampleAgent"]
    /\ catalog = <<>>
    /\ place_indexes = {}
    /\ route_calculators = {}
    /\ constructors = <<>>

NextExample == GetWeather \/ Deliver

SpecExample == InitExample /\ [][NextExample]_vars

-----------------------------------------------------------------------------
(* The five agents: a Lambda process runs the handler of one of them *)

InitAgents == InitArtifact \/ InitDateTime \/ InitWeather \/ InitGeolocation \/ InitExample

NextAgents ==
    \/ globals.tracer = "AWSArtifactAgent" /\ NextArtifact
    \/ globals.tracer = "DateTimeAgent" /\ NextDateTime
    \/ globals.tracer = "WeatherForecastAgent" /\ NextWeather
    \/ globals.tracer = "GeolocationAgent" /\ NextGeolocation
    \/ globals.tracer = "ExampleAgent" /\ NextExample

SpecAgents == InitAgents /\ [][NextAgents]_vars

-----------------------------------------------------------------------------
(* Claims about the responses of the endpoints *)

\* the route function returned a dictionary that reports no failure
SuccessfulResponse ==
    /\ pc = "done"
    /\ exc = "none"
    /\ \A key \in DOMAIN response \cap {"statusCode", "status"} : response[key] = 200

\* C11 (as claimed): every endpoint's successful response is a dictionary that
\* holds the key 'statusCode' with value 200 and the key 'body'.
C11_SuccessHoldsStatusCodeAndBody ==
    SuccessfulResponse =>
        /\ {"statusCode", "body"} \subseteq DOMAIN response
        /\ response.statusCode = 200

\* an integer and a float parameter as the route function reads them
ArgInt(name, default) == ParseInt(escape(Query(args, name, default)))
ArgFloat(name) == ParseFloat(escape(Query(args, name, <<>>)))

\* n is no number, or a number outside lo..hi
OutOfRange(n, lo, hi) == ~n.ok \/ n.value < lo \/ n.value > hi

NotANumber(x) == ~x.ok \/ x.nan

\* the parameter values the code of each route rejects
RejectedParameterValue ==
    LET agent == globals.tracer IN
    \/ /\ agent = "AWSArtifactAgent" /\ op = "/rp"
       /\ \/ OutOfRange(ArgInt(N_page_size, <<"5">>), 1, ListMaxResults)
          \/ ~ArgInt(N_page_number, <<"1">>).ok
    \/ /\ agent = "AWSArtifactAgent" /\ op = "/rp/pg"
       /\ OutOfRange(ArgInt(N_page_size, <<"5">>), 1, PagesMaxResults)
    \/ /\ agent = "AWSArtifactAgent" /\ op = "/rp/srch"
       /\ \/ ~ArgInt(N_max_results, <<"5">>).ok
          \/ ArgInt(N_max_results, <<"5">>).value > SearchMaxResults
    \/ /\ agent = "AWSArtifactAgent" /\ op = "/rp/url"
       /\ \/ ~ArgInt(N_report_version, <<>>).ok
          \/ ArgInt(N_report_version, <<>>).value < 1
    \/ /\ agent = "WeatherForecastAgent" /\ op = "/forecast"
       /\ \/ OutOfRange(ArgInt(N_latitude, <<>>), 0 - 90, 90)
          \/ OutOfRange(ArgInt(N_longitude, <<>>), 0 - 180, 180)
          \/ ~ArgInt(N_num_forecast_periods, <<"0">>).ok
          \/ /\ ArgInt(N_num_forecast_periods, <<"0">>).value < 0
             \* the period count is looked at once both requests were answered
             /\ env.weather.points.outcome = "ok"
             /\ "properties" \in env.weather.points.json.keys
             /\ env.weather.points.json.forecast_host_allowed
             /\ env.weather.forecast.outcome = "ok"
    \/ /\ agent = "GeolocationAgent" /\ op = "/rev-geocode"
       /\ (NotANumber(ArgFloat(N_longitude)) \/ NotANumber(ArgFloat(N_latitude)))
    \/ /\ agent = "GeolocationAgent" /\ op = "/route"
       /\ \E name \in {N_departure_longitude, N_departure_latitude,
                       N_destination_longitude, N_destination_latitude} : NotANumber(ArgFloat(name))

\* C12 (as claimed): whenever a request is rejected because of a parameter
\* value (non-numeric text, a size above the limit, a zero or negative page
\* size, a negative period count, an out-of-range or NaN coordinate), no
\* outbound call of that request was issued: validation precedes the call.
C12_ValidationPrecedesCalls ==
    (pc = "done" /\ RejectedParameterValue) => (exc # "none" /\ calls = <<>>)

\* C13: no outbound call is retried: within one invocation each distinct
\* outbound request (an SDK operation with its arguments, an HTTP GET of a URL)
\* is issued at most once, so a failed call is never followed by another
\* attempt of the same call.
C13_NoCallIssuedTwice ==
    \A i \in 1..Len(calls) : \A j \in 1..Len(calls) : i # j => calls[i] # calls[j]

\* C13's case: the points request of /forecast failed and the invocation ended
C13_Witness ==
    /\ pc = "done"
    /\ globals.tracer = "WeatherForecastAgent" /\ op = "/forecast"
    /\ calls # <<>>
    /\ env.weather.points.outcome = "Timeout"
    /\ exc = "TypeError"

-----------------------------------------------------------------------------
(* The escape_query_params middleware on its own *)

\* the most entries event['parameters'] holds
MaxParameters == 2

ParameterNames == {N_page_size, <<"a", " ", "b">>}
ParameterTypes == {"string", "integer"}
ParameterValues == {<<"5">>, <<"a", " ", "b">>, <<"9", "%">>, <<"a", "/", "b">>}

ParameterEntries == [name : ParameterNames, type : ParameterTypes, value : ParameterValues]

ParameterLists == UNION {[1..n -> ParameterEntries] : n \in 0..MaxParameters}

\* the events of a Bedrock agent: with and without the key 'parameters'
Events ==
    [apiPath : {"/rp", "/coords"}, httpMethod : {"GET"}, parameters : ParameterLists]
    \cup [apiPath : {"/rp", "/coords"}, httpMethod : {"GET"}]

\* the middleware handles an event and calls the wrapped handler
EscapeQueryParams ==
    /\ pc = "idle"
    /\ \E event \in Events :
        /\ pc' = "done"
        /\ op' = "escape_query_params"
        /\ args' = event
        /\ result' = middleware(event)
    /\ exc' = "none"
    /\ statusCode' = 0
    /\ body' = <<>>
    /\ calls' = <<>>
    /\ env' = NoEnv
    /\ response' = <<>>
    /\ passed' = Absent
    /\ UNCHANGED <<catalog, place_indexes, globals, route_calculators, constructors>>

InitMiddleware ==
    /\ pc = "idle"
    /\ op = "none"
    /\ args = <<>>
    /\ exc = "none"
    /\ statusCode = 0
    /\ body = <<>>
    /\ result = <<>>
    /\ calls = <<>>
    /\ env = NoEnv
    /\ response = <<>>
    /\ passed = Absent
    /\ globals \in {[tracer |-> agent] : agent \in {"AWSArtifactAgent", "DateTimeAgent",
                                                    "GeolocationAgent", "WeatherForecastAgent"}}
    /\ catalog = <<>>
    /\ place_indexes = {}
    /\ route_calculators = {}
    /\ constructors = <<>>

NextMiddleware == EscapeQueryParams \/ Deliver

SpecMiddleware == InitMiddleware /\ [][NextMiddleware]_vars

\* s is percent-encoded text: only characters quote() leaves alone, and "%"
IsEncoded(s) == \A i \in 1..Len(s) : IsSafeChar(s[i]) \/ s[i] = "%"

\* encoded is the percent-encoded form of original
EncodedFormOf(encoded, original) ==
    /\ IsEncoded(encoded)
    /\ unescape(encoded) = original
    /\ Len(encoded) = Len(original) + 2 * Cardinality({i \in 1..Len(original) : ~IsSafeChar(original[i])})

\* C15: escape_query_params escapes all query string parameters and changes
\* nothing else: the same number of entries in the same order, each name and
\* value the percent-encoded form of the original, each type unchanged, every
\* other key of the event unchanged, an event with no or empty 'parameters'
\* passed on unmodified, and the wrapped handler invoked exactly once.
C15_MiddlewareEscapesAndChangesNothingElse ==
    (pc = "done" /\ op = "escape_query_params") =>
        LET event  == args
            after  == result.event
            before == IF "parameters" \in DOMAIN event THEN event.parameters ELSE <<>>
        IN  /\ Len(result.handled) = 1
            /\ result.handled[1] = after
            /\ DOMAIN after = DOMAIN event
            /\ \A key \in DOMAIN event \ {"parameters"} : after[key] = event[key]
            /\ before = <<>> => after = event
            /\ before # <<>> =>
                  /\ Len(after.parameters) = Len(before)
                  /\ \A i \in 1..Len(before) :
                        /\ DOMAIN after.parameters[i] = {"name", "type", "value"}
                        /\ EncodedFormOf(after.parameters[i].name, before[i].name)
                        /\ EncodedFormOf(after.parameters[i].value, before[i].value)
                        /\ after.parameters[i].type = before[i].type

\* C15's case: two entries, one with a blank in its name and a "%" in its value
C15_Witness ==
    /\ pc = "done" /\ op = "escape_query_params"
    /\ "parameters" \in DOMAIN args
    /\ Len(args.parameters) = 2
    /\ args.parameters[1].name = <<"a", " ", "b">> /\ args.parameters[1].value = <<"9", "%">>
    /\ args.parameters[2].type = "integer"
    /\ result.event.parameters[1].name = <<"a", "%", "2", "0", "b">>
    /\ result.event.parameters[1].value = <<"9", "%", "2", "5">>

-----------------------------------------------------------------------------
(* Claims about the text the routes hand on *)

\* the value the caller gave the parameter
Original(name) == Query(args, name, <<>>)

GeocodeDone == pc = "done" /\ globals.tracer = "GeolocationAgent" /\ op = "/geocode"

\* C16 (as claimed): the address text /geocode sends to the place index is
\* '<street number> <street name>, <city>, <state> <zip code>' built from the
\* caller's original parameter values, also when a value holds a character the
\* middleware percent-encodes.
C16_AddressBuiltFromOriginalValues ==
    GeocodeDone =>
        \A i \in 1..Len(calls) :
            calls[i].api = "SearchPlaceIndexForText" =>
                calls[i].Text = PostalAddress(Original(N_street_number), Original(N_street_name),
                                              Original(N_city), Original(N_state), Original(N_zip_code))

\* C17: escaping followed by unescaping is the identity: the text /rp/srch
\* passes to search_reports, and the text /coords passes to
\* PlaceIndexService.get_point_coordinates, equals the caller's original
\* parameter value, although the middleware percent-encoded it in between.
C17_EscapeThenUnescapeIsIdentity ==
    /\ (pc = "done" /\ globals.tracer = "AWSArtifactAgent" /\ op = "/rp/srch" /\ passed.given)
           => passed.value = Original(N_search_keywords)
    /\ (pc = "done" /\ globals.tracer = "WeatherForecastAgent" /\ op = "/coords" /\ passed.given)
           => passed.value = Original(N_location_description)

\* C17's case: /coords handled a description that holds an encoded blank as text
C17_Witness ==
    /\ pc = "done" /\ globals.tracer = "WeatherForecastAgent" /\ op = "/coords"
    /\ Original(N_location_description) = <<"%", "2", "0">>
    /\ passed = Given(<<"%", "2", "0">>)
    /\ statusCode = 200

-----------------------------------------------------------------------------
(* Claims about the order of the outbound calls *)

UrlDone == pc = "done" /\ globals.tracer = "AWSArtifactAgent" /\ op = "/rp/url"

\* C19: get_report_url calls get_report only after get_term_for_report
\* succeeded, with the same report id and version and with exactly the term
\* token that call returned; when get_term_for_report fails, get_report is
\* never called and the error propagates.
C19_GetReportFollowsTermWithItsToken ==
    UrlDone =>
        /\ \A j \in 1..Len(calls) :
               calls[j].api = "GetReport" =>
                   /\ j > 1
                   /\ calls[j - 1].api = "GetTermForReport"
                   /\ env.artifact.term.outcome = "ok"
                   /\ calls[j].reportId = calls[j - 1].reportId
                   /\ calls[j].reportVersion = calls[j - 1].reportVersion
                   /\ calls[j].termToken = env.artifact.term.termToken
        /\ (calls # <<>> /\ env.artifact.term.outcome # "ok") =>
               /\ \A j \in 1..Len(calls) : calls[j].api # "GetReport"
               /\ exc = env.artifact.term.outcome
               /\ response = <<>>

\* C19's case: both calls were made and the URL was returned
C19_Witness ==
    /\ UrlDone
    /\ Len(calls) = 2
    /\ calls[2].api = "GetReport"
    /\ calls[2].termToken = <<"t", "2">>
    /\ statusCode = 200

ForecastDone == pc = "done" /\ globals.tracer = "WeatherForecastAgent" /\ op = "/forecast"

\* C20: get_forecast issues the forecast request only after the points request
\* returned a response, and when either HTTP request fails get_forecast raises
\* and never returns a list of periods.
C20_ForecastFollowsPointsAndFailuresRaise ==
    ForecastDone =>
        /\ \A j \in 1..Len(calls) :
               calls[j] = GetCall("forecast") =>
                   /\ j > 1
                   /\ calls[j - 1] = GetCall("points")
                   /\ env.weather.points.outcome = "ok"
        /\ \A j \in 1..Len(calls) :
               ((calls[j] = GetCall("points") /\ env.weather.points.outcome # "ok")
                \/ (calls[j] = GetCall("forecast") /\ env.weather.forecast.outcome # "ok"))
               => (exc # "none" /\ response = <<>> /\ statusCode # 200)

\* C20's case: the points request was answered and the forecast request timed out
C20_Witness ==
    /\ ForecastDone
    /\ calls = <<GetCall("points"), GetCall("forecast")>>
    /\ env.weather.forecast.outcome = "Timeout"
    /\ exc = "Exception"

-----------------------------------------------------------------------------
(* The service constructors of several Lambda instances, step by step *)

\* the most constructor sequences that run at the same time
MaxConstructors == 2

ThePlaceIndexService(index_name) == [class |-> "PlaceIndexService", name |-> index_name]
TheRouteService(calculator_name) == [class |-> "RouteService", name |-> calculator_name]

\* the module initialisation of the Geolocation handler: PlaceIndexService, then
\* RouteService
GeolocationInitialisation ==
    <<ThePlaceIndexService(DemoPlaceIndex), TheRouteService(SampleRouteCalculator)>>

\* get_point_coordinates of the WeatherForecast handler constructs its service
WeatherCoordinates == <<ThePlaceIndexService(DemoPlaceIndex)>>

\* summarize_route constructs PlaceIndexService() with the default name
SummarizeRoute == <<ThePlaceIndexService(SamplePlaceIndex)>>

ConstructorSequences == {GeolocationInitialisation, WeatherCoordinates, SummarizeRoute}

\* a constructor sequence before its first step
Constructing(todo) == [todo |-> todo, at |-> "list", steps |-> <<>>, raised |-> FALSE]

\* what the service answers to a create call: a fault of its own, or
\* ConflictException when a resource of the name exists, or the resource
CreateResponse(name, existing, fault) ==
    IF fault # "ok" THEN fault
    ELSE IF name \in existing THEN "ConflictException"
    ELSE "ok"

CreateFaults == {"ok", "AccessDeniedException"}

\* a slip: the except clause passes ConflictException on
create_place_index_except_reraising(code) ==
    [raised |-> code = "ConflictException", logged |-> code \notin {"ok", "ConflictException"}]

\* the except clause of create_place_index: ConflictException is passed over,
\* every other ClientError is logged, nothing is raised
create_place_index_except(code) ==
    [raised |-> FALSE, logged |-> code \notin {"ok", "ConflictException"}]

\* the except clause of create_route_calculator
create_route_calculator_except(code) ==
    [raised |-> FALSE, logged |-> code \notin {"ok", "ConflictException"}]

\* create_place_index / create_route_calculator after the listing: return when
\* the name is listed, go on to the create call otherwise
AfterListing(c, existing, step) ==
    IF Head(c.todo).name \in existing
    THEN [c EXCEPT !.todo = Tail(@), !.steps = Append(@, step)]
    ELSE [c EXCEPT !.at = "create", !.steps = Append(@, step)]

\* the end of a constructor after its create call: the next constructor of the
\* sequence follows unless this one raised
AfterCreate(c, handled, step) ==
    [c EXCEPT !.todo = IF handled.raised THEN <<>> ELSE Tail(@),
              !.at = "list",
              !.steps = Append(@, step),
              !.raised = handled.raised]

\* a step of a constructor as the claims read it: the call, the listing the
\* constructor went on with (empty after a ClientError), the create call's outcome
Step(call, name, listing, outcome) ==
    [api |-> call.api, name |-> name, listing |-> listing, outcome |-> outcome]

\* self.list_place_indexes() of one constructor
ListPlaceIndexes ==
    /\ \E i \in DOMAIN constructors, answer \in {"ok", "ClientError"} :
        LET c == constructors[i] IN
        /\ c.todo # <<>>
        /\ c.at = "list"
        /\ Head(c.todo).class = "PlaceIndexService"
        /\ LET existing_indexes == geo_list_place_indexes(place_indexes, [list |-> answer])
               step == Step(ListPlaceIndexesCall, Head(c.todo).name, existing_indexes, "listed")
           IN  constructors' = [constructors EXCEPT ![i] = AfterListing(c, existing_indexes, step)]
    /\ UNCHANGED <<pc, op, args, exc, statusCode, body, result, calls, catalog, place_indexes,
                   env, response, passed, globals, route_calculators>>

\* self.client.create_place_index(...) of one constructor, with its except clause
CreatePlaceIndex ==
    /\ \E i \in DOMAIN constructors, fault \in CreateFaults :
        LET c == constructors[i] IN
        /\ c.todo # <<>>
        /\ c.at = "create"
        /\ Head(c.todo).class = "PlaceIndexService"
        /\ LET index_name == Head(c.todo).name
               code == CreateResponse(index_name, place_indexes, fault)
               step == Step(CreatePlaceIndexCall(index_name), index_name, {}, code)
           IN  /\ place_indexes' = IF code = "ok" THEN place_indexes \cup {index_name}
                                   ELSE place_indexes
               /\ constructors' =
                      [constructors EXCEPT ![i] = AfterCreate(c, create_place_index_except(code), step)]
    /\ UNCHANGED <<pc, op, args, exc, statusCode, body, result, calls, catalog,
                   env, response, passed, globals, route_calculators>>

\* self.list_route_calculators() of one constructor
ListRouteCalculators ==
    /\ \E i \in DOMAIN constructors, answer \in {"ok", "ClientError"} :
        LET c == constructors[i] IN
        /\ c.todo # <<>>
        /\ c.at = "list"
        /\ Head(c.todo).class = "RouteService"
        /\ LET existing_calculators == IF answer = "ok" THEN route_calculators ELSE {}
               step == Step(ListRouteCalculatorsCall, Head(c.todo).name, existing_calculators, "listed")
           IN  constructors' = [constructors EXCEPT ![i] = AfterListing(c, existing_calculators, step)]
    /\ UNCHANGED <<pc, op, args, exc, statusCode, body, result, calls, catalog, place_indexes,
                   env, response, passed, globals, route_calculators>>

\* self.client.create_route_calculator(...) of one constructor, with its except clause
CreateRouteCalculator ==
    /\ \E i \in DOMAIN constructors, fault \in CreateFaults :
        LET c == constructors[i] IN
        /\ c.todo # <<>>
        /\ c.at = "create"
        /\ Head(c.todo).class = "RouteService"
        /\ LET calculator_name == Head(c.todo).name
               code == CreateResponse(calculator_name, route_calculators, fault)
               step == Step(CreateRouteCalculatorCall(calculator_name), calculator_name, {}, code)
           IN  /\ route_calculators' = IF code = "ok" THEN route_calculators \cup {calculator_name}
                                       ELSE route_calculators
               /\ constructors' =
                      [constructors EXCEPT ![i] = AfterCreate(c, create_route_calculator_except(code), step)]
    /\ UNCHANGED <<pc, op, args, exc, statusCode, body, result, calls, catalog, place_indexes,
                   env, response, passed, globals>>

\* some constructor sequences start together on an account that holds some of
\* the resources; env remembers what the account held
InitConstructors ==
    /\ pc = "idle"
    /\ op = "none"
    /\ args = <<>>
    /\ exc = "none"
    /\ statusCode = 0
    /\ body = <<>>
    /\ result = <<>>
    /\ calls = <<>>
    /\ response = <<>>
    /\ passed = Absent
    /\ globals = <<>>
    /\ catalog = <<>>
    /\ place_indexes \in IndexesBefore
    /\ route_calculators \in CalculatorsBefore
    /\ env = [place_indexes |-> place_indexes, route_calculators |-> route_calculators]
    /\ \E n \in 1..MaxConstructors : \E todo \in [1..n -> ConstructorSequences] :
           constructors = [i \in 1..n |-> Constructing(todo[i])]

NextConstructors ==
    ListPlaceIndexes \/ CreatePlaceIndex \/ ListRouteCalculators \/ CreateRouteCalculator

SpecConstructors == InitConstructors /\ [][NextConstructors]_vars

\* the create calls of the name that succeeded, each named by its constructor
\* sequence and its step
SucceededCreates(api, name) ==
    {p \in {<<i, j>> : i \in DOMAIN constructors, j \in 1..(2 * Len(GeolocationInitialisation))} :
        /\ p[2] <= Len(constructors[p[1]].steps)
        /\ constructors[p[1]].steps[p[2]].api = api
        /\ constructors[p[1]].steps[p[2]].name = name
        /\ constructors[p[1]].steps[p[2]].outcome = "ok"}

\* the resources of the name the account holds: the one it held before, and one
\* for each create call that succeeded
ResourcesNamed(api, name, before) ==
    Cardinality(SucceededCreates(api, name)) + (IF name \in before THEN 1 ELSE 0)

\* C18: creation of the place index and of the route calculator is
\* create-if-absent and tolerates races: a create call is issued only when the
\* name was absent from the listing the constructor got, a ConflictException
\* of create is swallowed, and in every interleaving of constructors no
\* constructor raises, at most one create call of a name succeeds, and at most
\* one resource of a name exists.
C18_CreateIfAbsentToleratesRaces ==
    /\ \A i \in DOMAIN constructors :
           LET steps == constructors[i].steps IN
           /\ ~constructors[i].raised
           /\ \A j \in 1..Len(steps) :
                  /\ steps[j].api \in {"CreatePlaceIndex", "CreateRouteCalculator"} =>
                         /\ j > 1
                         /\ steps[j - 1].api \in {"ListPlaceIndexes", "ListRouteCalculators"}
                         /\ steps[j - 1].name = steps[j].name
                         /\ steps[j].name \notin steps[j - 1].listing
                  /\ (steps[j].api \in {"ListPlaceIndexes", "ListRouteCalculators"}
                      /\ steps[j].name \in steps[j].listing /\ j < Len(steps)) =>
                         steps[j + 1].api \in {"ListPlaceIndexes", "ListRouteCalculators"}
                  /\ (steps[j].outcome = "ConflictException" /\ j = Len(steps)) =>
                         constructors[i].at = "list"
    /\ \A name \in {DemoPlaceIndex, SamplePlaceIndex} :
           /\ Cardinality(SucceededCreates("CreatePlaceIndex", name)) <= 1
           /\ ResourcesNamed("CreatePlaceIndex", name, env.place_indexes) <= 1
           /\ place_indexes = env.place_indexes
                  \cup {n \in {DemoPlaceIndex, SamplePlaceIndex} :
                            SucceededCreates("CreatePlaceIndex", n) # {}}
    /\ Cardinality(SucceededCreates("CreateRouteCalculator", SampleRouteCalculator)) <= 1
    /\ ResourcesNamed("CreateRouteCalculator", SampleRouteCalculator, env.route_calculators) <= 1

\* C18's case: two constructors listed before either created, one create call
\* succeeded and the other got ConflictException, and both sequences ended
C18_Witness ==
    /\ constructors # <<>>
    /\ \A i \in DOMAIN constructors : constructors[i].todo = <<>>
    /\ \E i \in DOMAIN constructors, k \in DOMAIN constructors :
           /\ i # k
           /\ \E j \in 1..Len(constructors[i].steps) :
                  /\ constructors[i].steps[j].api = "CreatePlaceIndex"
                  /\ constructors[i].steps[j].outcome = "ok"
           /\ \E j \in 1..Len(constructors[k].steps) :
                  /\ constructors[k].steps[j].api = "CreatePlaceIndex"
                  /\ constructors[k].steps[j].outcome = "ConflictException"

-----------------------------------------------------------------------------
(* Claims about the limits and the output of the listing routes *)

ListingDone ==
    /\ pc = "done"
    /\ globals.tracer = "AWSArtifactAgent"
    /\ op \in {"/rp", "/rp/pg", "/rp/srch"}
    /\ RequestedSize.ok
    /\ ParseInt(Query(args, N_page_number, <<"1">>)).ok

\* C21: list_reports, get_total_report_pages and search_reports raise
\* ValueError before any call to the report catalog when the size argument
\* exceeds the limit, which is 10 for list_reports, 15 for
\* get_total_report_pages and 10 for search_reports; a size from 1 to the
\* limit is not turned away and the catalog is called.
C21_SizeAboveLimitRaisesBeforeCatalogCall ==
    ListingDone =>
        LET limit == IF op = "/rp/pg" THEN 15 ELSE 10 IN
        /\ RequestedSize.value > limit =>
               (exc = "ValueError" /\ calls = <<>> /\ response = <<>>)
        /\ (RequestedSize.value >= 1 /\ RequestedSize.value <= limit) =>
               (exc = "none" /\ calls # <<>>)

\* C21's case: /rp/pg was asked for pages of 16 reports
C21_Witness ==
    /\ ListingDone
    /\ op = "/rp/pg"
    /\ RequestedSize.value = 16
    /\ exc = "ValueError"
    /\ calls = <<>>

\* the most reports of a catalog with long descriptions
MaxDescribed == 2

\* a description of n characters, words of six letters, the characters past
\* the limit of list_reports differing from those before it
LongText(n) ==
    [i \in 1..n |-> IF i % 7 = 0 THEN " " ELSE IF i <= DescriptionLimit THEN "a" ELSE "b"]

\* lengths around the limit of list_reports
DescriptionLengths ==
    {0, DescriptionLimit - 1, DescriptionLimit, DescriptionLimit + 1,
     DescriptionLimit + 3, DescriptionLimit + 4}

\* the catalogs of reports whose descriptions have these lengths
DescribedCatalogs ==
    UNION {{[i \in 1..n |-> [id |-> i, name |-> <<"a">>, version |-> 1,
                             description |-> LongText(f[i])]] :
                f \in [1..n -> DescriptionLengths]} : n \in 1..MaxDescribed}

\* the Artifact agent on a catalog with long descriptions, asked to list
InitDescriptions ==
    /\ pc = "idle"
    /\ op = "none"
    /\ args = <<>>
    /\ exc = "none"
    /\ statusCode = 0
    /\ body = <<>>
    /\ result = <<>>
    /\ calls = <<>>
    /\ env = NoEnv
    /\ response = <<>>
    /\ passed = Absent
    /\ globals = [tracer |-> "AWSArtifactAgent"]
    /\ route_calculators = {}
    /\ constructors = <<>>
    /\ catalog \in DescribedCatalogs
    /\ place_indexes = {}

NextDescriptions == ListReports \/ Deliver

SpecDescriptions == InitDescriptions /\ [][NextDescriptions]_vars

ListDone == pc = "done" /\ globals.tracer = "AWSArtifactAgent" /\ op = "/rp" /\ exc = "none"

\* C22: in the output of list_reports every description is the report's
\* description unchanged when it has at most 100 characters, and otherwise its
\* first 100 characters followed by '...'; so no returned description is
\* longer than 103 characters.
C22_DescriptionsCutAtHundred ==
    ListDone =>
        \A k \in 1..Len(body) :
            LET description == catalog[body[k].id].description IN
            /\ Len(description) <= 100 => body[k].description = description
            /\ Len(description) > 100 =>
                   body[k].description = SubSeq(description, 1, 100) \o <<".", ".", ".">>
            /\ Len(body[k].description) <= 103

\* C22's case: a description of 104 characters was listed next to one of
\* exactly 100 characters
C22_Witness ==
    /\ ListDone
    /\ Len(body) = 2
    /\ Len(catalog[body[1].id].description) = 104
    /\ Len(body[1].description) = 103
    /\ Len(catalog[body[2].id].description) = 100
    /\ Len(body[2].description) = 100

-----------------------------------------------------------------------------
(* Claims about what /route does besides the route calculation *)

\* the positions of the calls of an operation among the calls of the invocation
CallsOf(cs, api) == {i \in 1..Len(cs) : cs[i].api = api}

=============================================================================
